---- MODULE Spec2Model ----
(***************************************************************************)
(* The CTAPHID pipe of usbd-ctaphid (src/src/pipe.rs): reassembly of a     *)
(* request from 64-byte packets, dispatch, and fragmentation of the        *)
(* response.                                                               *)
(*                                                                         *)
(* Arrays are functions indexed from 0, as in the source.  A u32 is a pair *)
(* of 16-bit halves [hi, lo] (TLC's integers are 32-bit signed).  The      *)
(* message buffer [0u8; MESSAGE_SIZE] is stored up to its last non-zero    *)
(* byte; BufAt gives the byte at every index 0..MESSAGE_SIZE-1.            *)
(***************************************************************************)
EXTENDS Integers, Sequences, FiniteSets, TLC

PACKET_SIZE == 64

MESSAGE_SIZE == PACKET_SIZE - 7 + 128 * (PACKET_SIZE - 5)

\* number of channel allocations the host asks for in one run
MaxAllocs == 1

---------------------------------------------------------------------------
(* Integers of fixed width and byte strings *)

Byte == 0..255

U16_MAX == 65535

MkU32(hi, lo) == [hi |-> hi, lo |-> lo]

U32_ZERO == MkU32(0, 0)

U32_MAX == MkU32(U16_MAX, U16_MAX)

\* u32::from_be_bytes of a 4-byte array
U32FromBeBytes(b) == MkU32(b[0] * 256 + b[1], b[2] * 256 + b[3])

\* u32::to_be_bytes
U32ToBeBytes(x) ==
  [i \in 0..3 |-> CASE i = 0 -> x.hi \div 256
                    [] i = 1 -> x.hi % 256
                    [] i = 2 -> x.lo \div 256
                    [] i = 3 -> x.lo % 256]

\* u16::from_be_bytes of a 2-byte array
U16FromBeBytes(b) == b[0] * 256 + b[1]

\* u16::to_be_bytes
U16ToBeBytes(x) == [i \in 0..1 |-> IF i = 0 THEN x \div 256 ELSE x % 256]

\* x + 1 on a u32 that is not u32::MAX
U32Succ(x) ==
  IF x.lo = U16_MAX THEN MkU32(x.hi + 1, 0) ELSE MkU32(x.hi, x.lo + 1)

\* `size as u16`
AsU16(size) == size % 65536

\* bit operations on a byte
Shr7(b) == b \div 128

ClearBit7(b) == b % 128

SetBit7(b) == (b % 128) + 128

\* a[from..to] as an array indexed from 0
Slice(a, from, to) == [i \in 0..(to - from - 1) |-> a[from + i]]

ArrayLen(a) == Cardinality(DOMAIN a)

---------------------------------------------------------------------------
(* The message buffer *)

\* the byte of the buffer array at index i
BufAt(buf, i) == IF i \in DOMAIN buf THEN buf[i] ELSE 0

RECURSIVE LastNonZero(_, _)
LastNonZero(f, n) ==
  IF n = 0 THEN 0 ELSE IF f[n - 1] # 0 THEN n ELSE LastNonZero(f, n - 1)

\* the stored form of an array given on 0..n-1
Stored(f, n) == LET m == LastNonZero(f, n) IN [i \in 0..(m - 1) |-> f[i]]

Hi(a, b) == IF a >= b THEN a ELSE b

\* buf[start..][..ArrayLen(src)].copy_from_slice(src)
CopyFromSlice(buf, start, src) ==
  LET n == ArrayLen(src)
      top == Hi(ArrayLen(buf), start + n)
  IN Stored([i \in 0..(top - 1) |->
               IF i >= start /\ i < start + n THEN src[i - start]
               ELSE BufAt(buf, i)], top)

\* buf[..n] as an array indexed from 0
BufSlice(buf, from, to) == [i \in 0..(to - from - 1) |-> BufAt(buf, from + i)]

---------------------------------------------------------------------------
(* Commands and operations *)

Ok(v) == [ok |-> TRUE, value |-> v]

Err == [ok |-> FALSE]

\* a Command: the variant, and for Vendor the VendorCommand byte (else 0)
Cmd(variant) == [variant |-> variant, inner |-> 0]

VENDOR_FIRST == 64

VENDOR_LAST == 127

\* TryFrom<u8> for VendorCommand
VendorCommandTryFrom(from) ==
  IF from >= VENDOR_FIRST /\ from <= VENDOR_LAST
  THEN Ok([variant |-> "Vendor", inner |-> from])
  ELSE Err

\* TryFrom<u8> for Command
CommandTryFrom(from) ==
  CASE from = 1 -> Ok(Cmd("Ping"))
    [] from = 3 -> Ok(Cmd("Msg"))
    [] from = 6 -> Ok(Cmd("Init"))
    [] from = 63 -> Ok(Cmd("Error"))
    [] from = 8 -> Ok(Cmd("Wink"))
    [] from = 4 -> Ok(Cmd("Lock"))
    [] from = 16 -> Ok(Cmd("Cbor"))
    [] from = 17 -> Ok(Cmd("Cancel"))
    [] from = 59 -> Ok(Cmd("KeepAlive"))
    [] OTHER -> VendorCommandTryFrom(from)

\* Into<u8> for Command
CommandIntoU8(command) ==
  CASE command.variant = "Ping" -> 1
    [] command.variant = "Msg" -> 3
    [] command.variant = "Init" -> 6
    [] command.variant = "Error" -> 63
    [] command.variant = "Wink" -> 8
    [] command.variant = "Lock" -> 4
    [] command.variant = "Cbor" -> 16
    [] command.variant = "Cancel" -> 17
    [] command.variant = "KeepAlive" -> 59
    [] command.variant = "Vendor" -> command.inner

\* TryFrom<u8> for Operation (VendorOperation has the range of VendorCommand)
OperationTryFrom(from) ==
  CASE from = 1 -> Ok(Cmd("MakeCredential"))
    [] from = 2 -> Ok(Cmd("GetAssertion"))
    [] from = 8 -> Ok(Cmd("GetNextAssertion"))
    [] from = 4 -> Ok(Cmd("GetInfo"))
    [] from = 6 -> Ok(Cmd("ClientPin"))
    [] from = 7 -> Ok(Cmd("Reset"))
    [] OTHER -> VendorCommandTryFrom(from)

---------------------------------------------------------------------------
(* Request, Response, MessageState, State *)

Request(channel, command, length) ==
  [channel |-> channel, command |-> command, length |-> length]

Response(channel, command, length) ==
  [channel |-> channel, command |-> command, length |-> length]

\* a variant that keeps the declared length of the request
FromRequestAndSize_RequestLength(request, size) ==
  Response(request.channel, request.command, request.length)

\* Response::from_request_and_size
FromRequestAndSize(request, size) ==
  Response(request.channel, request.command, AsU16(size))

\* a variant that counts the payload of a continuation packet
MessageStateDefault_Continuation ==
  [next_sequence |-> 0, transmitted |-> PACKET_SIZE - 5]

\* MessageState::default
MessageStateDefault == [next_sequence |-> 0, transmitted |-> PACKET_SIZE - 7]

\* a variant that advances by the payload of an initialisation packet
AbsorbPacket_InitSize(ms) ==
  [next_sequence |-> (ms.next_sequence + 1) % 256,
   transmitted |-> ms.transmitted + (PACKET_SIZE - 7)]

\* a variant that counts two sequence numbers for a packet
AbsorbPacket_TwoPerPacket(ms) ==
  [next_sequence |-> (ms.next_sequence + 2) % 256,
   transmitted |-> ms.transmitted + (PACKET_SIZE - 5)]

\* MessageState::absorb_packet
AbsorbPacket(ms) ==
  [next_sequence |-> (ms.next_sequence + 1) % 256,
   transmitted |-> ms.transmitted + (PACKET_SIZE - 5)]

Idle == [tag |-> "Idle"]

Receiving(request, ms) ==
  [tag |-> "Receiving", request |-> request, message_state |-> ms]

Processing(request) == [tag |-> "Processing", request |-> request]

ResponsePending(response) == [tag |-> "ResponsePending", response |-> response]

Sending(response, ms) ==
  [tag |-> "Sending", response |-> response, message_state |-> ms]

---------------------------------------------------------------------------
(* The pipe: self is [state, buffer, last_channel], and a call's outcome    *)
(* adds wr, the packet submitted to the write endpoint with the endpoint's  *)
(* answer, and panicked.                                                    *)

Self(st, buf, lc) ==
  [state |-> st, buffer |-> buf, last_channel |-> lc,
   wr |-> [attempted |-> FALSE], panicked |-> FALSE]

Attempt(packet, w) == [attempted |-> TRUE, packet |-> packet, result |-> w]

\* the answers of an endpoint: Ok(size), Err(WouldBlock), Err(other)
UsbOk(size) == [ok |-> TRUE, size |-> size, error |-> "None"]

UsbErr(error) == [ok |-> FALSE, size |-> 0, error |-> error]

WriteResults ==
  {UsbOk(PACKET_SIZE), UsbOk(PACKET_SIZE - 1),
   UsbErr("WouldBlock"), UsbErr("BufferOverflow")}

Panic(p, packet, w) == [p EXCEPT !.wr = Attempt(packet, w), !.panicked = TRUE]

\* a variant that sends a response of 57 bytes in two packets
FitsInOnePacket_Strict(response) == 7 + response.length < PACKET_SIZE

\* `7 + response.length as usize <= PACKET_SIZE`
FitsInOnePacket(response) == 7 + response.length <= PACKET_SIZE

\* a variant that copies 57 buffer bytes whatever the length
FirstPacket_NoPad(response, buf, fits) ==
  [i \in 0..(PACKET_SIZE - 1) |->
     IF i < 4 THEN U32ToBeBytes(response.channel)[i]
     ELSE IF i = 4 THEN SetBit7(CommandIntoU8(response.command))
     ELSE IF i < 7 THEN U16ToBeBytes(response.length)[i - 5]
     ELSE BufAt(buf, i - 7)]

\* the initialisation packet built in the ResponsePending arm
FirstPacket(response, buf, fits) ==
  [i \in 0..(PACKET_SIZE - 1) |->
     IF i < 4 THEN U32ToBeBytes(response.channel)[i]
     ELSE IF i = 4 THEN SetBit7(CommandIntoU8(response.command))
     ELSE IF i < 7 THEN U16ToBeBytes(response.length)[i - 5]
     ELSE IF fits
          THEN (IF i - 7 < response.length THEN BufAt(buf, i - 7) ELSE 0)
          ELSE BufAt(buf, i - 7)]

\* the state after the first packet has been built, before it is submitted
BuiltFirst(st, fits) == IF fits THEN Idle ELSE st

\* a variant that takes every error of the endpoint for WouldBlock
WritePending_EveryErrorWouldBlock(p, w) ==
  LET response == p.state.response
      fits == FitsInOnePacket(response)
      packet == FirstPacket(response, p.buffer, fits)
      built == [p EXCEPT !.state = BuiltFirst(p.state, fits),
                         !.wr = Attempt(packet, w)]
  IN CASE ~w.ok -> built
       [] w.ok /\ w.size = PACKET_SIZE ->
            IF fits THEN [built EXCEPT !.state = Idle]
            ELSE [built EXCEPT !.state = Sending(response, MessageStateDefault)]
       [] OTHER -> Panic(built, packet, w)

\* maybe_write_packet, State::ResponsePending
WritePending(p, w) ==
  LET response == p.state.response
      fits == FitsInOnePacket(response)
      packet == FirstPacket(response, p.buffer, fits)
      built == [p EXCEPT !.state = BuiltFirst(p.state, fits),
                         !.wr = Attempt(packet, w)]
  IN CASE ~w.ok /\ w.error = "WouldBlock" -> built
       [] ~w.ok -> Panic(built, packet, w)
       [] w.ok /\ w.size = PACKET_SIZE ->
            IF fits THEN [built EXCEPT !.state = Idle]
            ELSE [built EXCEPT !.state = Sending(response, MessageStateDefault)]
       [] OTHER -> Panic(built, packet, w)

\* a variant that does not fill the last packet
LastPacket_Strict(remaining) == 5 + remaining < PACKET_SIZE

\* `5 + remaining <= PACKET_SIZE`
LastPacket(remaining) == 5 + remaining <= PACKET_SIZE

\* the continuation packet built in the Sending arm
NextPacket(response, ms, buf, remaining, last) ==
  [i \in 0..(PACKET_SIZE - 1) |->
     IF i < 4 THEN U32ToBeBytes(response.channel)[i]
     ELSE IF i = 4 THEN ms.next_sequence
     ELSE IF last
          THEN (IF i - 5 < remaining THEN BufAt(buf, ms.transmitted + i - 5)
                ELSE 0)
          ELSE BufAt(buf, ms.transmitted + i - 5)]

\* a variant that advances the message state whatever the endpoint answers
WriteSending_AdvanceOnWouldBlock(p, w) ==
  LET response == p.state.response
      ms == p.state.message_state
      sent == ms.transmitted
      remaining == response.length - sent
      last == LastPacket(remaining)
      packet == NextPacket(response, ms, p.buffer, remaining, last)
      tried == [p EXCEPT !.wr = Attempt(packet, w)]
  IN CASE remaining < 0 -> [p EXCEPT !.panicked = TRUE]
       [] sent + (IF last THEN remaining ELSE PACKET_SIZE - 5) > MESSAGE_SIZE ->
            [p EXCEPT !.panicked = TRUE]
       [] ~w.ok /\ w.error # "WouldBlock" -> Panic(p, packet, w)
       [] w.ok /\ w.size # PACKET_SIZE -> Panic(p, packet, w)
       [] OTHER ->
            IF last /\ w.ok THEN [tried EXCEPT !.state = Idle]
            ELSE IF last THEN tried
            ELSE [tried EXCEPT !.state = Sending(response, AbsorbPacket(ms))]

\* maybe_write_packet, State::Sending
WriteSending(p, w) ==
  LET response == p.state.response
      ms == p.state.message_state
      sent == ms.transmitted
      remaining == response.length - sent
      last == LastPacket(remaining)
      packet == NextPacket(response, ms, p.buffer, remaining, last)
      tried == [p EXCEPT !.wr = Attempt(packet, w)]
  IN CASE remaining < 0 -> [p EXCEPT !.panicked = TRUE]
       [] sent + (IF last THEN remaining ELSE PACKET_SIZE - 5) > MESSAGE_SIZE ->
            [p EXCEPT !.panicked = TRUE]
       [] ~w.ok /\ w.error = "WouldBlock" -> tried
       [] ~w.ok -> Panic(p, packet, w)
       [] w.ok /\ w.size = PACKET_SIZE ->
            IF last THEN [tried EXCEPT !.state = Idle]
            ELSE [tried EXCEPT !.state = Sending(response, AbsorbPacket(ms))]
       [] OTHER -> Panic(p, packet, w)

\* maybe_write_packet
MaybeWritePacket(p, w) ==
  CASE p.state.tag = "ResponsePending" -> WritePending(p, w)
    [] p.state.tag = "Sending" -> WriteSending(p, w)
    [] OTHER -> p

\* start_sending
StartSending(p, response, w) ==
  MaybeWritePacket([p EXCEPT !.state = ResponsePending(response)], w)

---------------------------------------------------------------------------
(* authenticatorGetInfo: the record and its CBOR serialisation *)

None == [some |-> FALSE]

Some(v) == [some |-> TRUE, value |-> v]

\* a sequence of bytes as an array indexed from 0
Arr(seq) == [i \in 0..(Len(seq) - 1) |-> seq[i + 1]]

\* the initial byte(s) of a CBOR item of the given major type and argument
CborHead(major, n) ==
  IF n < 24 THEN <<major * 32 + n>>
  ELSE IF n < 256 THEN <<major * 32 + 24, n>>
  ELSE IF n < 65536 THEN <<major * 32 + 25, n \div 256, n % 256>>
  ELSE <<major * 32 + 26, n \div 16777216, (n \div 65536) % 256,
         (n \div 256) % 256, n % 256>>

CborUint(n) == CborHead(0, n)

CborBytes(b) == CborHead(2, Len(b)) \o b

CborText(t) == CborHead(3, Len(t)) \o t

\* a variant with the simple values of true and false exchanged
CborBool_Swapped(b) == IF b THEN <<244>> ELSE <<245>>

CborBool(b) == IF b THEN <<245>> ELSE <<244>>

RECURSIVE Concat(_)
Concat(items) ==
  IF items = <<>> THEN <<>> ELSE Head(items) \o Concat(Tail(items))

CborTextArray(ts) ==
  CborHead(4, Len(ts)) \o Concat([i \in 1..Len(ts) |-> CborText(ts[i])])

CborUintArray(ns) ==
  CborHead(4, Len(ns)) \o Concat([i \in 1..Len(ns) |-> CborUint(ns[i])])

\* the ASCII bytes of the strings used
STR_FIDO_2_0 == <<70, 73, 68, 79, 95, 50, 95, 48>>

STR_AAGUID == <<65, 65, 71, 85, 73, 68, 48, 49, 50, 51, 52, 53, 54, 55, 56, 57>>

STR_rk == <<114, 107>>

STR_up == <<117, 112>>

STR_uv == <<117, 118>>

STR_plat == <<112, 108, 97, 116>>

STR_clientPin == <<99, 108, 105, 101, 110, 116, 80, 105, 110>>

\* CtapOptions::default
CtapOptionsDefault ==
  [rk |-> FALSE, up |-> TRUE, uv |-> None, plat |-> FALSE, client_pin |-> None]

\* AuthenticatorInfo::default
AuthenticatorInfoDefault ==
  [versions |-> <<>>, extensions |-> None,
   aaguid |-> [i \in 1..16 |-> 0],
   options |-> Some(CtapOptionsDefault),
   max_msg_size |-> Some(MESSAGE_SIZE),
   pin_protocols |-> None, max_creds_in_list |-> None,
   max_cred_id_length |-> None]

\* InsecureRamAuthenticator::get_info
GetInfo ==
  [AuthenticatorInfoDefault EXCEPT !.versions = <<STR_FIDO_2_0>>,
                                   !.aaguid = STR_AAGUID,
                                   !.max_msg_size = Some(MESSAGE_SIZE)]

\* the fields of a struct that are not skipped: <<index, key, value>> each
Present(fields) == SelectSeq(fields, LAMBDA f : f[1])

\* Serialize for CtapOptions (below the packed depth: keys are the names)
SerializeCtapOptions(o) ==
  LET fields == Present(<<
        <<TRUE, STR_rk, CborBool(o.rk)>>,
        <<TRUE, STR_up, CborBool(o.up)>>,
        <<o.uv.some, STR_uv, IF o.uv.some THEN CborBool(o.uv.value) ELSE <<>> >>,
        <<TRUE, STR_plat, CborBool(o.plat)>>,
        <<o.client_pin.some, STR_clientPin,
          IF o.client_pin.some THEN CborBool(o.client_pin.value) ELSE <<>> >> >>)
  IN CborHead(5, Len(fields)) \o
     Concat([i \in 1..Len(fields) |-> CborText(fields[i][2]) \o fields[i][3]])

\* Serialize for AuthenticatorInfo in packed format, keys starting with 1
SerializeAuthenticatorInfo(info) ==
  LET fields == Present(<<
        <<TRUE, 1, CborTextArray(info.versions)>>,
        <<info.extensions.some, 2,
          IF info.extensions.some THEN CborTextArray(info.extensions.value)
          ELSE <<>> >>,
        <<TRUE, 3, CborBytes(info.aaguid)>>,
        <<info.options.some, 4,
          IF info.options.some THEN SerializeCtapOptions(info.options.value)
          ELSE <<>> >>,
        <<info.max_msg_size.some, 5,
          IF info.max_msg_size.some THEN CborUint(info.max_msg_size.value)
          ELSE <<>> >>,
        <<info.pin_protocols.some, 6,
          IF info.pin_protocols.some THEN CborUintArray(info.pin_protocols.value)
          ELSE <<>> >>,
        <<info.max_creds_in_list.some, 7,
          IF info.max_creds_in_list.some
          THEN CborUint(info.max_creds_in_list.value) ELSE <<>> >>,
        <<info.max_cred_id_length.some, 8,
          IF info.max_cred_id_length.some
          THEN CborUint(info.max_cred_id_length.value) ELSE <<>> >> >>)
  IN CborHead(5, Len(fields)) \o
     Concat([i \in 1..Len(fields) |-> CborUint(fields[i][2]) \o fields[i][3]])

---------------------------------------------------------------------------
(* Dispatch *)

BROADCAST == U32_MAX

\* `self.last_channel += 1`: the sum, or wrapped to 0 where the build does
\* not check overflow
NextChannel(last_channel) ==
  IF last_channel = U32_MAX THEN U32_ZERO ELSE U32Succ(last_channel)

\* a variant that announces the capabilities WINK | NMSG
InitReply_WinkNmsg(channel) ==
  [i \in 0..8 |-> IF i < 4 THEN U32ToBeBytes(channel)[i]
                  ELSE IF i = 4 THEN 2
                  ELSE IF i < 8 THEN 0
                  ELSE 9]

\* the bytes written to buffer[8..17] for the channel id assigned
InitReply(channel) ==
  [i \in 0..8 |-> IF i < 4 THEN U32ToBeBytes(channel)[i]
                  ELSE IF i = 4 THEN 2
                  ELSE IF i < 8 THEN 0
                  ELSE 5]

\* dispatch_request, Command::Init; checked: the build panics on overflow
DispatchInit(p, request, w, checked) ==
  IF request.channel = BROADCAST
  THEN IF request.length # 8 THEN p
       ELSE IF p.last_channel = U32_MAX /\ checked
            THEN [p EXCEPT !.panicked = TRUE]
            ELSE LET assigned == NextChannel(p.last_channel)
                     response == Response(BROADCAST, request.command, 17)
                 IN StartSending(
                      [p EXCEPT !.last_channel = assigned,
                                !.buffer = CopyFromSlice(p.buffer, 8,
                                                         InitReply(assigned))],
                      response, w)
  ELSE p

\* handle_cbor
HandleCbor(p, request, w) ==
  IF request.length < 1 THEN p
  ELSE LET operation == OperationTryFrom(BufAt(p.buffer, 0))
       IN IF ~operation.ok THEN p
          ELSE IF operation.value.variant = "GetInfo"
               THEN LET written == SerializeAuthenticatorInfo(GetInfo)
                        size == 1 + Len(written)
                    IN StartSending(
                         [p EXCEPT !.buffer =
                            CopyFromSlice(p.buffer, 0, Arr(<<0>> \o written))],
                         FromRequestAndSize(request, size), w)
               ELSE p

\* dispatch_request
DispatchRequest(p, w, checked) ==
  IF p.state.tag = "Processing"
  THEN LET request == p.state.request
       IN CASE request.command.variant = "Init" ->
                 DispatchInit(p, request, w, checked)
            [] request.command.variant = "Ping" ->
                 StartSending(p, FromRequestAndSize(request, request.length), w)
            [] request.command.variant = "Wink" ->
                 StartSending(p, FromRequestAndSize(request, 0), w)
            [] request.command.variant = "Cbor" -> HandleCbor(p, request, w)
            [] OTHER -> p
  ELSE p

---------------------------------------------------------------------------
(* Receive *)

\* what read_endpoint.read leaves: its answer and the packet array
ReadOk(packet) ==
  [ok |-> TRUE, size |-> PACKET_SIZE, error |-> "None", packet |-> packet]

ReadShort(packet) ==
  [ok |-> TRUE, size |-> PACKET_SIZE - 1, error |-> "None", packet |-> packet]

ReadErr(error, packet) ==
  [ok |-> FALSE, size |-> 0, error |-> error, packet |-> packet]

\* `(packet[4] >> 7) != 0`
IsInitialization(packet) == Shr7(packet[4]) # 0

\* a variant that is busy only while a request is being received
Busy_OnlyReceiving(st) == st.tag = "Receiving"

\* a variant that is not busy while a response is being sent
Busy_NotWhileSending(st) == st # Idle /\ st.tag # "Sending"

\* `!(self.state == State::Idle)`
Busy(st) == st # Idle

\* a variant that admits one byte more
TooLong_OneMore(length) == length > AsU16(MESSAGE_SIZE) + 1

\* `length > MESSAGE_SIZE as u16`
TooLong(length) == length > AsU16(MESSAGE_SIZE)

\* read_and_handle_packet, initialisation packet
HandleInitialization(p, packet, channel, w, checked) ==
  IF Busy(p.state) THEN p
  ELSE LET command == CommandTryFrom(ClearBit7(packet[4]))
           length == U16FromBeBytes(Slice(packet, 5, 7))
       IN IF ~command.ok THEN p
          ELSE IF TooLong(length) THEN p
          ELSE LET request == Request(channel, command.value, length)
               IN IF length > PACKET_SIZE - 7
                  THEN [p EXCEPT
                          !.buffer = CopyFromSlice(p.buffer, 0,
                                       Slice(packet, 7, PACKET_SIZE)),
                          !.state = Receiving(request, MessageStateDefault)]
                  ELSE DispatchRequest(
                         [p EXCEPT
                            !.buffer = CopyFromSlice(p.buffer, 0,
                                         Slice(packet, 7, 7 + length)),
                            !.state = Processing(request)],
                         w, checked)

\* read_and_handle_packet, continuation packet
HandleContinuation(p, packet, channel, w, checked) ==
  IF p.state.tag = "Receiving"
  THEN LET request == p.state.request
           message_state == p.state.message_state
           sequence == packet[4]
           payload_length == request.length
       IN IF sequence # message_state.next_sequence THEN p
          ELSE IF channel # request.channel THEN p
          ELSE IF message_state.transmitted + (PACKET_SIZE - 5) < payload_length
               THEN [p EXCEPT
                       !.buffer = CopyFromSlice(p.buffer,
                                    message_state.transmitted,
                                    Slice(packet, 5, PACKET_SIZE)),
                       \* absorb_packet acts on the copy of message_state that
                       \* the match arm binds; self.state is not assigned
                       !.state = p.state]
               ELSE LET missing == request.length - message_state.transmitted
                    IN DispatchRequest(
                         [p EXCEPT
                            !.buffer = CopyFromSlice(p.buffer,
                                         message_state.transmitted,
                                         Slice(packet, 5, 5 + missing)),
                            !.state = Processing(request)],
                         w, checked)
  ELSE p

\* a variant that gives up the transaction on an unexpected continuation
ReadAndHandlePacket_ContinuationAborts(p, r, w, checked) ==
  IF ~(r.ok /\ r.size = PACKET_SIZE) THEN p
  ELSE LET packet == r.packet
           channel == U32FromBeBytes(Slice(packet, 0, 4))
       IN IF IsInitialization(packet)
          THEN HandleInitialization(p, packet, channel, w, checked)
          ELSE IF p.state.tag = "Receiving"
               THEN HandleContinuation(p, packet, channel, w, checked)
               ELSE [p EXCEPT !.state = Idle]

\* a variant that gives up the transaction when the read fails
ReadAndHandlePacket_ResetOnError(p, r, w, checked) ==
  IF ~r.ok THEN [p EXCEPT !.state = Idle]
  ELSE IF r.size # PACKET_SIZE THEN p
  ELSE LET packet == r.packet
           channel == U32FromBeBytes(Slice(packet, 0, 4))
       IN IF IsInitialization(packet)
          THEN HandleInitialization(p, packet, channel, w, checked)
          ELSE HandleContinuation(p, packet, channel, w, checked)

\* read_and_handle_packet
ReadAndHandlePacket(p, r, w, checked) ==
  IF ~(r.ok /\ r.size = PACKET_SIZE) THEN p
  ELSE LET packet == r.packet
           channel == U32FromBeBytes(Slice(packet, 0, 4))
       IN IF IsInitialization(packet)
          THEN HandleInitialization(p, packet, channel, w, checked)
          ELSE HandleContinuation(p, packet, channel, w, checked)

---------------------------------------------------------------------------
(* The host *)

\* largest sequence byte the host uses in order; it also sends one beyond
MaxSeq == 2

CH1 == MkU32(0, 1)

CH2 == MkU32(0, 2)

\* byte k of the payload of the message the host sends
Payload(seed, k) == (seed + k) % 256

\* a request the host sends: channel, command byte (bit 7 set), declared
\* length and payload
Desc(channel, cmd, length, seed) ==
  [channel |-> channel, cmd |-> cmd, length |-> length, seed |-> seed]

\* the payload of request d
PayloadOf(d) == [k \in 0..(d.length - 1) |-> Payload(d.seed, k)]

\* the initialisation packet of request d; bytes after the payload are 165
HostInit(d) ==
  [i \in 0..(PACKET_SIZE - 1) |->
     IF i < 4 THEN U32ToBeBytes(d.channel)[i]
     ELSE IF i = 4 THEN d.cmd
     ELSE IF i < 7 THEN U16ToBeBytes(d.length)[i - 5]
     ELSE IF i - 7 < d.length THEN Payload(d.seed, i - 7)
     ELSE 165]

\* the continuation packet with sequence byte seq that carries the bytes from
\* 57 + 59 * seq of a payload of the given length
HostCont(channel, seq, length, seed) ==
  [i \in 0..(PACKET_SIZE - 1) |->
     IF i < 4 THEN U32ToBeBytes(channel)[i]
     ELSE IF i = 4 THEN seq
     ELSE IF 57 + 59 * seq + (i - 5) < length
          THEN Payload(seed, 57 + 59 * seq + (i - 5))
          ELSE 165]

PingLengths == {0, 5, 57, 58, 116, 117, 200, MESSAGE_SIZE, MESSAGE_SIZE + 1}

MultiLengths == {l \in PingLengths : l > 57 /\ l <= MESSAGE_SIZE}

\* the requests the host sends: Ping of every length on channel 1 and on the
\* reserved channels, Init, Wink, Cbor with operation bytes 1, 3 and 4, the
\* other commands, and command bytes that are no command
InitDescs ==
  {Desc(CH1, 129, l, 1) : l \in PingLengths}
  \cup {Desc(c, 129, 5, 1) : c \in {U32_ZERO, BROADCAST}}
  \cup {Desc(BROADCAST, 134, l, 1) : l \in {7, 8}}
  \cup {Desc(c, 134, 8, 1) : c \in {CH1, U32_ZERO}}
  \cup {Desc(CH1, 136, l, 1) : l \in {0, 5}}
  \cup {Desc(CH1, 144, 1, s) : s \in {1, 3, 4}}
  \cup {Desc(CH1, 144, 0, 4)}
  \cup {Desc(CH1, c, 5, 1) : c \in {131, 132, 145, 187, 191, 192, 255}}
  \cup {Desc(CH1, c, 5, 1) : c \in {128, 130, 146}}

SeqBytes == (0..MaxSeq) \cup {5}

\* the continuation packets the host sends: those of its Ping requests, and
\* packets on another channel
ContDescs ==
  {[channel |-> CH1, seq |-> q, length |-> l, seed |-> 1] :
     q \in SeqBytes, l \in MultiLengths}
  \cup {[channel |-> CH2, seq |-> q, length |-> 200, seed |-> 1] : q \in {0, 1}}

ZeroPacket == [i \in 0..(PACKET_SIZE - 1) |-> 0]

\* a well-formed Ping packet cut short by one byte
ShortPacket ==
  [i \in 0..(PACKET_SIZE - 1) |->
     IF i = PACKET_SIZE - 1 THEN 0 ELSE HostInit(Desc(CH1, 129, 5, 1))[i]]

\* what the host does before a read, and what the read endpoint then answers
HostMoves ==
  {[kind |-> "init", d |-> d, read |-> ReadOk(HostInit(d))] : d \in InitDescs}
  \cup {[kind |-> "cont", d |-> d,
         read |-> ReadOk(HostCont(d.channel, d.seq, d.length, d.seed))] :
          d \in ContDescs}
  \cup {[kind |-> "short", d |-> Desc(CH1, 129, 5, 1),
         read |-> ReadShort(ShortPacket)],
        [kind |-> "none", d |-> Desc(U32_ZERO, 0, 0, 0),
         read |-> ReadErr("WouldBlock", ZeroPacket)]}

---------------------------------------------------------------------------
(* The DER writer (src/src/derpy.rs).  A byte slice is a sequence: the byte *)
(* at index i of the source is element i + 1.  A usize is the sequence of   *)
(* its 16-bit limbs, most significant first; size_of::<usize>() is 4 or 8.  *)

CONSTRUCTED == 32

TAG_INTEGER == 2

TAG_SEQUENCE == CONSTRUCTED + 16

\* the usize of the given width with value n
UsizeFrom(size_of, n) ==
  [i \in 1..(size_of \div 2) |->
     IF i = size_of \div 2 THEN n % 65536
     ELSE IF i = size_of \div 2 - 1 THEN n \div 65536
     ELSE 0]

\* usize::to_be_bytes
UsizeToBeBytes(x) ==
  [i \in 1..(2 * Len(x)) |->
     IF i % 2 = 1 THEN x[(i + 1) \div 2] \div 256 ELSE x[i \div 2] % 256]

\* a variant that writes one byte only for lengths below 0x40
UsizeBelow0x80_Below0x40(x) ==
  x[Len(x)] < 64 /\ \A i \in 1..(Len(x) - 1) : x[i] = 0

\* `length < 0x80`
UsizeBelow0x80(x) == x[Len(x)] < 128 /\ \A i \in 1..(Len(x) - 1) : x[i] = 0

\* `length as u8`
UsizeAsU8(x) == x[Len(x)] % 256

\* struct Der
Der(buf, offset) == [buffer |-> buf, offset |-> offset]

\* Der::new
DerNew(buf) == Der(buf, 0)

\* Deref for Der: &self.buffer[..self.offset]
DerDeref(d) == SubSeq(d.buffer, 1, d.offset)

\* what a writer operation returns and the writer it leaves; panicked: an
\* index outside the buffer has stopped the program
DerOk(d) == [der |-> d, ok |-> TRUE, panicked |-> FALSE]

DerErr(d) == [der |-> d, ok |-> FALSE, panicked |-> FALSE]

DerPanic(d) == [der |-> d, ok |-> FALSE, panicked |-> TRUE]

\* the range of n elements from index start lies within buf; indexing
\* outside it panics
SliceInBounds(buf, start, n) == start + n <= Len(buf)

\* buf[start..][..Len(data)].copy_from_slice(data), the range within buf
CopyIntoSlice(buf, start, data) ==
  [i \in 1..Len(buf) |->
     IF i > start /\ i <= start + Len(data) THEN data[i - start] ELSE buf[i]]

\* a variant that refuses data that ends exactly at the end of the buffer
WriteAll_RefuseExactFit(d, data) ==
  IF d.offset + Len(data) >= Len(d.buffer) THEN DerErr(d)
  ELSE DerOk(Der(CopyIntoSlice(d.buffer, d.offset, data),
                 d.offset + Len(data)))

\* Der::write_all
WriteAll(d, data) ==
  IF d.offset + Len(data) > Len(d.buffer) THEN DerErr(d)
  ELSE IF ~SliceInBounds(d.buffer, d.offset, Len(data)) THEN DerPanic(d)
  ELSE DerOk(Der(CopyIntoSlice(d.buffer, d.offset, data),
                 d.offset + Len(data)))

\* while repr[0] == 0 { repr = &repr[1..] }
RECURSIVE TrimRepr(_)
TrimRepr(repr) == IF repr[1] = 0 THEN TrimRepr(Tail(repr)) ELSE repr

\* a variant that writes one byte for every length under 256
WriteLengthField_ShortTo255(d, length) ==
  IF length[Len(length)] < 256 /\ \A i \in 1..(Len(length) - 1) : length[i] = 0
  THEN WriteAll(d, <<UsizeAsU8(length)>>)
  ELSE LET repr == TrimRepr(UsizeToBeBytes(length))
           first == WriteAll(d, <<SetBit7(Len(repr))>>)
       IN IF first.ok THEN WriteAll(first.der, repr) ELSE first

\* Der::write_length_field
WriteLengthField(d, length) ==
  IF UsizeBelow0x80(length) THEN WriteAll(d, <<UsizeAsU8(length)>>)
  ELSE LET repr == TrimRepr(UsizeToBeBytes(length))
           first == WriteAll(d, <<SetBit7(Len(repr))>>)
       IN IF first.ok THEN WriteAll(first.der, repr) ELSE first

\* Der::raw_tlv
RawTlv(d, tag, value, size_of) ==
  LET t == WriteAll(d, <<tag>>)
      l == WriteLengthField(t.der, UsizeFrom(size_of, Len(value)))
  IN IF ~t.ok THEN t
     ELSE IF ~l.ok THEN l
     ELSE WriteAll(l.der, value)

\* while !integer.is_empty() && integer[0] == 0 { integer = &integer[1..] }
RECURSIVE StripLeadingZeros(_)
StripLeadingZeros(integer) ==
  IF integer # <<>> /\ integer[1] = 0 THEN StripLeadingZeros(Tail(integer))
  ELSE integer

\* a variant that pads only when the first byte is above 0x80
NonNegativeInteger_PadAbove0x80(d, input, size_of) ==
  LET t == WriteAll(d, <<TAG_INTEGER>>)
      integer == StripLeadingZeros(input)
      padded == integer = <<>> \/ integer[1] > 128
      l == WriteLengthField(t.der, UsizeFrom(size_of, Len(integer)
                                               + (IF padded THEN 1 ELSE 0)))
      z == IF padded THEN WriteAll(l.der, <<0>>) ELSE l
  IN IF ~t.ok THEN t
     ELSE IF ~l.ok THEN l
     ELSE IF ~z.ok THEN z
     ELSE WriteAll(z.der, integer)

\* Der::non_negative_integer
NonNegativeInteger(d, input, size_of) ==
  LET t == WriteAll(d, <<TAG_INTEGER>>)
      integer == StripLeadingZeros(input)
      padded == integer = <<>> \/ integer[1] >= 128
      l == WriteLengthField(t.der, UsizeFrom(size_of, Len(integer)
                                               + (IF padded THEN 1 ELSE 0)))
      z == IF padded THEN WriteAll(l.der, <<0>>) ELSE l
  IN IF ~t.ok THEN t
     ELSE IF ~l.ok THEN l
     ELSE IF ~z.ok THEN z
     ELSE WriteAll(z.der, integer)

\* a variant that leaves the nested structure where it was written
CopyWithin_NotMoved(buf, from, to, dest) == buf

\* self.buffer.copy_within(from..to, dest), the ranges within buf
CopyWithin(buf, from, to, dest) ==
  [i \in 1..Len(buf) |->
     IF i > dest /\ i <= dest + (to - from) THEN buf[i - dest + from]
     ELSE buf[i]]

\* Der::nested; inner is what the closure f returns, called on the writer d,
\* and the writer it leaves
Nested(d, tag, inner, size_of) ==
  LET before == d.offset
      self == inner.der
      written == self.offset - before
      tmp == [i \in 1..(2 + size_of) |-> 0]
      t == WriteAll(DerNew(tmp), <<tag>>)
      l == WriteLengthField(t.der, UsizeFrom(size_of, written))
      shift == l.der.offset
  IN IF ~inner.ok THEN inner
     ELSE IF ~t.ok \/ ~l.ok THEN DerErr(self)
     ELSE IF self.offset + shift > Len(self.buffer) THEN DerErr(self)
     ELSE IF ~SliceInBounds(self.buffer, before + shift, written)
          THEN DerPanic(self)
     ELSE DerOk(Der(CopyIntoSlice(CopyWithin(self.buffer, before, self.offset,
                                             before + shift),
                                  before, SubSeq(l.der.buffer, 1, shift)),
                    self.offset + shift))

\* Der::sequence
DerSequence(d, inner, size_of) == Nested(d, TAG_SEQUENCE, inner, size_of)

\* the closure |der| { der.non_negative_integer(r)?; der.non_negative_integer(s) }
TwoIntegers(d, r, s, size_of) ==
  LET first == NonNegativeInteger(d, r, size_of)
  IN IF first.ok THEN NonNegativeInteger(first.der, s, size_of) ELSE first

\* Ecdsa-Sig-Value of (r, s) written to a new writer over buf
EcdsaSigValue(d, r, s, size_of) ==
  DerSequence(d, TwoIntegers(d, r, s, size_of), size_of)

---------------------------------------------------------------------------
(* The authenticator (src/src/insecure.rs).  Hashes, key pairs, public keys *)
(* and signatures are the terms of what they are computed from; the CBOR    *)
(* serialization of a CredentialInner is a term that deserializes to it.    *)

\* what a call of the authenticator returns; panicked: an assert! or an
\* unwrap has stopped the program
AuthOk(v) == [ok |-> TRUE, value |-> v, panicked |-> FALSE]

AuthErr(e) == [ok |-> FALSE, error |-> e, panicked |-> FALSE]

AuthPanic == [ok |-> FALSE, error |-> "panic", panicked |-> TRUE]

\* the result of a hash, a key generation or a signature
Term(f, args) == [f |-> f, args |-> args]

\* InsecureRamAuthenticator::default
InsecureRamAuthenticator ==
  [aaguid |-> <<65, 65, 71, 85, 73, 68, 48, 49, 50, 51, 52, 53, 54, 55, 56, 57>>,
   master_secret |-> [i \in 1..32 |-> 37]]

\* a variant in which the last supported entry of the list decides
RECURSIVE ScanAlgs_LastWins(_, _)
ScanAlgs_LastWins(pub_key_cred_params, found) ==
  IF pub_key_cred_params = <<>> THEN found
  ELSE LET alg == Head(pub_key_cred_params).alg
       IN ScanAlgs_LastWins(Tail(pub_key_cred_params),
                            CASE alg = -7 -> [eddsa |-> FALSE,
                                              supported_algorithm |-> TRUE]
                              [] alg = -8 -> [eddsa |-> TRUE,
                                              supported_algorithm |-> TRUE]
                              [] OTHER -> found)

\* the loop over params.pub_key_cred_params
RECURSIVE ScanAlgs(_, _)
ScanAlgs(pub_key_cred_params, found) ==
  IF pub_key_cred_params = <<>> THEN found
  ELSE LET alg == Head(pub_key_cred_params).alg
       IN ScanAlgs(Tail(pub_key_cred_params),
                   CASE alg = -7 -> [found EXCEPT !.supported_algorithm = TRUE]
                     [] alg = -8 -> [eddsa |-> TRUE,
                                     supported_algorithm |-> TRUE]
                     [] OTHER -> found)

\* the n bytes of a hash or of a public key
BytesOf(t, n) == [i \in 1..n |-> Term("byte", <<t, i>>)]

\* the CBOR head of a byte string of n bytes, n below 256
CborBytesHead(n) == IF n < 24 THEN <<64 + n>> ELSE <<88, n>>

\* the CBOR encoding of an i8 between -24 and 23
CborInt(v) == IF v >= 0 THEN <<v>> ELSE <<32 + (-1 - v)>>

\* Bytes::from_serialized of a CredentialInner: the map of its three fields
\* in the packed format, the fields numbered from 0
FromSerialized(inner) ==
  <<163, 0>> \o CborBytesHead(Len(inner.user_id)) \o inner.user_id
    \o <<1>> \o CborInt(inner.alg)
    \o <<2>> \o CborBytesHead(Len(inner.seed)) \o inner.seed

\* a byte string of at most max bytes read at bytes[at]: its value and the
\* index after it
ReadBytes(bytes, at, max) ==
  IF at > Len(bytes) THEN [ok |-> FALSE]
  ELSE LET head == bytes[at]
           long == head = 88
           n == IF long THEN (IF at + 1 > Len(bytes) THEN 256 ELSE bytes[at + 1])
                ELSE head - 64
           from == IF long THEN at + 2 ELSE at + 1
       IN IF ~long /\ (head < 64 \/ head > 87) THEN [ok |-> FALSE]
          ELSE IF n > max \/ from + n - 1 > Len(bytes) THEN [ok |-> FALSE]
          ELSE [ok |-> TRUE, value |-> SubSeq(bytes, from, from + n - 1),
                next |-> from + n]

\* the deserialization of the bytes of a credential id as a CredentialInner
Deserialize(id) ==
  IF Len(id) < 3 THEN [ok |-> FALSE]
  ELSE IF id[1] # 163 \/ id[2] # 0 THEN [ok |-> FALSE]
  ELSE
    LET user_id == ReadBytes(id, 3, 64)
    IN IF ~user_id.ok THEN [ok |-> FALSE]
       ELSE
         LET at == user_id.next
         IN IF at + 2 > Len(id) THEN [ok |-> FALSE]
            ELSE IF id[at] # 1 \/ id[at + 1] > 55 \/ id[at + 2] # 2
              THEN [ok |-> FALSE]
            ELSE
              LET alg == IF id[at + 1] < 24 THEN id[at + 1]
                         ELSE -1 - (id[at + 1] - 32)
                  seed == ReadBytes(id, at + 3, 32)
              IN IF id[at + 1] \in 24..31 \/ ~seed.ok THEN [ok |-> FALSE]
                 ELSE [ok |-> TRUE,
                       value |-> [user_id |-> user_id.value, alg |-> alg,
                                  seed |-> seed.value]]

\* a PublicKeyCredentialDescriptor of an id, which is a Bytes<U64>
PublicKeyCredentialDescriptor(id) ==
  IF Len(id) <= 64 THEN Some([key_type |-> "public-key", id |-> id])
  ELSE None

\* the key pair of a seed
KeypairOf(eddsa, seed) ==
  IF eddsa THEN Term("Ed25519", <<seed>>) ELSE Term("P256", <<seed>>)

\* Keypair::serialize_public_key: the COSE key of the public key
SerializePublicKey(keypair) ==
  IF keypair.f = "Ed25519"
  THEN <<164, 1, 1, 3, 39, 32, 6, 33>> \o CborBytesHead(32)
         \o BytesOf(Term("public", <<keypair>>), 32)
  ELSE <<165, 1, 2, 3, 38, 32, 1, 33>> \o CborBytesHead(32)
         \o SubSeq(BytesOf(Term("public", <<keypair>>), 64), 1, 32)
         \o <<34>> \o CborBytesHead(32)
         \o SubSeq(BytesOf(Term("public", <<keypair>>), 64), 33, 64)

\* AttestedCredentialData::serialize:
\* aaguid[16] || credIdLen[2 BE] || credId || cosePublicKey
AttestedCredentialDataSerialize(data) ==
  data.aaguid
    \o <<Len(data.credential_id) \div 256, Len(data.credential_id) % 256>>
    \o data.credential_id \o data.credential_public_key

\* AuthenticatorData::serialize:
\* rpIdHash[32] || flags[1] || signCount[4 BE] || attestedCredentialData?
AuthenticatorDataSerialize(data) ==
  data.rp_id_hash \o <<data.flags>>
    \o <<(data.sign_count \div 16777216) % 256,
         (data.sign_count \div 65536) % 256,
         (data.sign_count \div 256) % 256, data.sign_count % 256>>
    \o (IF data.attested_credential_data.some
        THEN data.attested_credential_data.value ELSE <<>>)

\* the serialized AuthenticatorData of both operations
SerializedAuthData(self, rp_id, credential_id, keypair) ==
  AuthenticatorDataSerialize(
    [rp_id_hash |-> BytesOf(Term("prehash", <<rp_id>>), 32),
     flags |-> 64,
     sign_count |-> 123,
     attested_credential_data |->
       Some(AttestedCredentialDataSerialize(
              [aaguid |-> self.aaguid,
               credential_id |-> credential_id,
               credential_public_key |-> SerializePublicKey(keypair)]))])

\* steps 9 to 11 of make_credential: the AttestationObject of a new key pair
NewAttestationObject(self, params, eddsa) ==
  LET seed == BytesOf(Term("prehash",
                           <<Term("Sha512", <<self.master_secret, params.rp.id,
                                              params.user.id>>)>>), 32)
      keypair == KeypairOf(eddsa, seed)
      credential_inner == [user_id |-> params.user.id,
                           alg |-> IF eddsa THEN -8 ELSE -7,
                           seed |-> seed]
      credential_id == FromSerialized(credential_inner)
      auth_data == SerializedAuthData(self, params.rp.id, credential_id,
                                      keypair)
      digest == Term("Sha256", <<auth_data, params.client_data_hash>>)
      sig == Term("asn1_sign_prehashed",
                  <<KeypairOf(FALSE, "SOLO_HACKER_ATTN_KEY"), digest>>)
  IN [fmt |-> "packed",
      auth_data |-> auth_data,
      att_stmt |-> [alg |-> -7, sig |-> sig,
                    x5c |-> <<"SOLO_HACKER_ATTN_CERT">>]]

\* a variant that checks the options before the algorithms
MakeCredential_OptionsFirst(self, params) ==
  LET found == ScanAlgs(params.pub_key_cred_params,
                        [eddsa |-> FALSE, supported_algorithm |-> FALSE])
  IN IF Len(params.client_data_hash) # 32 THEN AuthErr("InvalidLength")
     ELSE IF params.options.some /\ params.options.value.rk = Some(TRUE)
       THEN AuthErr("UnsupportedOption")
     ELSE IF params.options.some /\ params.options.value.uv = Some(TRUE)
       THEN AuthErr("UnsupportedOption")
     ELSE IF ~found.supported_algorithm THEN AuthErr("UnsupportedAlgorithm")
     ELSE AuthOk(NewAttestationObject(self, params, found.eddsa))

\* InsecureRamAuthenticator::make_credential
MakeCredential(self, params) ==
  LET found == ScanAlgs(params.pub_key_cred_params,
                        [eddsa |-> FALSE, supported_algorithm |-> FALSE])
  IN IF Len(params.client_data_hash) # 32 THEN AuthErr("InvalidLength")
     ELSE IF ~found.supported_algorithm THEN AuthErr("UnsupportedAlgorithm")
     ELSE IF params.options.some /\ params.options.value.rk = Some(TRUE)
       THEN AuthErr("UnsupportedOption")
     ELSE IF params.options.some /\ params.options.value.uv = Some(TRUE)
       THEN AuthErr("UnsupportedOption")
     ELSE AuthOk(NewAttestationObject(self, params, found.eddsa))

\* InsecureRamAuthenticator::get_assertions
GetAssertions(self, params) ==
  IF Len(params.allow_list) = 0 THEN AuthErr("NoCredentials")
  ELSE IF Len(params.allow_list) # 1 THEN AuthPanic
  ELSE
    LET cloned_credential_id == params.allow_list[1].id
        de == Deserialize(cloned_credential_id)
        credential_inner == de.value
        keypair == KeypairOf(credential_inner.alg = -8, credential_inner.seed)
        auth_data == SerializedAuthData(self, params.rp_id,
                                        cloned_credential_id, keypair)
        digest == Term("Sha256", <<auth_data, params.client_data_hash>>)
        sig == IF credential_inner.alg = -8
               THEN Term("sign", <<keypair, auth_data,
                                   params.client_data_hash>>)
               ELSE Term("asn1_sign_prehashed", <<keypair, digest>>)
    IN IF ~de.ok THEN AuthPanic
       ELSE IF Len(credential_inner.seed) # 32 THEN AuthPanic
       ELSE AuthOk(<<[user |-> Some([id |-> credential_inner.user_id]),
                      auth_data |-> auth_data,
                      signature |-> sig,
                      credential |-> Some(params.allow_list[1]),
                      number_of_credentials |-> None]>>)

---------------------------------------------------------------------------
(* The state machine *)

VARIABLES
  state,         \* Pipe::state
  buffer,        \* Pipe::buffer
  last_channel,  \* Pipe::last_channel
  panicked,      \* the program has panicked
  rx,            \* what the last call read from the read endpoint
  wr,            \* what the last call submitted to the write endpoint
  tx,            \* the packets the write endpoint accepted for this request
  req,           \* the request the host is delivering, and how far it got
  allocs,        \* channel requests the host has made
  submitted,     \* packets the last call submitted to the write endpoint
  der,           \* a Der writer
  derop,         \* the last operation on the writer, and how it returned
  authcall       \* the last call of the authenticator, and how it returned

vars ==
  <<state, buffer, last_channel, panicked, rx, wr, tx, req, allocs, submitted,
    der, derop, authcall>>

\* the variables of the pipe
pipe_vars ==
  <<state, buffer, last_channel, panicked, rx, wr, tx, req, allocs, submitted>>

\* the variables of the DER writer and of the authenticator
lib_vars == <<der, derop, authcall>>

\* no writer operation and no authenticator call has been made
NoDerOp == [op |-> "none"]

NoAuthCall == [op |-> "none"]

LibIdle ==
  /\ der = DerNew(<<>>)
  /\ derop = NoDerOp
  /\ authcall = NoAuthCall

\* what a call read, as the host sees it: nothing (the call does not read, or
\* the endpoint had no packet), a short packet, or a full packet, which is an
\* initialisation packet (valid: a command of the protocol and a length within
\* MESSAGE_SIZE) or a continuation packet (with its channel and sequence byte)
Rx(kind, valid, channel, seq) ==
  [kind |-> kind, valid |-> valid, channel |-> channel, seq |-> seq]

NoRead == Rx("none", FALSE, U32_ZERO, 0)

NoRequest ==
  [active |-> FALSE, d |-> Desc(U32_ZERO, 0, 0, 0), conts |-> 0,
   wellformed |-> FALSE, blocked |-> FALSE, cancelled |-> FALSE]

\* the command bytes of section 3 of the protocol description
KnownCommandBytes == {1, 3, 4, 6, 8, 16, 17, 59, 63} \cup (64..127)

\* continuation packets a payload of the given length needs
Needed(length) == IF length <= 57 THEN 0 ELSE (length - 57 + 58) \div 59

\* every packet of the request has been handed to the pipe
Delivered(q) == q.active /\ q.conts = Needed(q.d.length)

\* the host starts a request: a valid initialisation packet, the pipe idle
NewRequest(h) ==
  /\ h.kind = "init"
  /\ state = Idle
  /\ ClearBit7(h.d.cmd) \in KnownCommandBytes
  /\ h.d.length <= MESSAGE_SIZE

\* the host asks for a channel
IsAlloc(h) ==
  /\ NewRequest(h)
  /\ h.d.channel = BROADCAST /\ h.d.cmd = 134 /\ h.d.length = 8

\* the host cancels the request the pipe is processing
IsCancel(h) ==
  /\ h.kind = "init"
  /\ state.tag = "Processing"
  /\ h.d.cmd = 145 /\ h.d.channel = state.request.channel
  /\ h.d.length <= MESSAGE_SIZE

Observe(q, h) ==
  IF NewRequest(h)
  THEN [active |-> TRUE, d |-> h.d, conts |-> 0, wellformed |-> TRUE,
        blocked |-> FALSE, cancelled |-> FALSE]
  ELSE IF IsCancel(h) THEN [q EXCEPT !.cancelled = TRUE]
  ELSE IF q.active /\ ~Delivered(q) /\ h.kind \in {"init", "cont"}
       THEN IF /\ q.wellformed
               /\ h.kind = "cont"
               /\ h.read.packet =
                    HostCont(q.d.channel, q.conts, q.d.length, q.d.seed)
            THEN [q EXCEPT !.conts = q.conts + 1]
            ELSE [q EXCEPT !.wellformed = FALSE]
       ELSE q

\* the write endpoint has answered WouldBlock while the request was served
Blocked(q, attempt) ==
  [q EXCEPT !.blocked = q.blocked \/ (/\ attempt.attempted
                                       /\ ~attempt.result.ok
                                       /\ attempt.result.error = "WouldBlock")]

\* the packets accepted so far, with the one this call submitted
Accepted(log, attempt) ==
  IF attempt.attempted /\ attempt.result.ok /\ attempt.result.size = PACKET_SIZE
  THEN Append(log, attempt.packet)
  ELSE log

\* Pipe::new
PipeInit ==
  /\ state = Idle
  /\ buffer = <<>>
  /\ last_channel = U32_ZERO
  /\ panicked = FALSE
  /\ rx = NoRead
  /\ wr = [attempted |-> FALSE]
  /\ tx = <<>>
  /\ req = NoRequest
  /\ allocs = 0
  /\ submitted = 0

Init == PipeInit /\ LibIdle

\* the read as the host sees it
Seen(h) ==
  CASE h.kind = "init" ->
         Rx("init", ClearBit7(h.d.cmd) \in KnownCommandBytes
                    /\ h.d.length <= MESSAGE_SIZE, U32_ZERO, 0)
    [] h.kind = "cont" -> Rx("cont", FALSE, h.d.channel, h.d.seq)
    [] OTHER -> Rx(h.kind, FALSE, U32_ZERO, 0)

\* the answers the write endpoint may give during a call that reads h
WritesFor(h) ==
  IF \/ state = Idle /\ h.kind = "init"
     \/ state.tag = "Receiving" /\ h.kind = "cont"
  THEN WriteResults
  ELSE {UsbOk(PACKET_SIZE)}

\* endpoint_out: one call of read_and_handle_packet
ReadStep ==
  /\ ~panicked
  /\ \E h \in HostMoves :
       /\ IsAlloc(h) => allocs < MaxAllocs
       /\ \E w \in WritesFor(h) :
          \E checked \in (IF last_channel = U32_MAX THEN BOOLEAN ELSE {FALSE}) :
            \E out \in {ReadAndHandlePacket(Self(state, buffer, last_channel),
                                            h.read, w, checked)} :
               /\ state' = out.state
               /\ buffer' = out.buffer
               /\ last_channel' = out.last_channel
               /\ panicked' = out.panicked
               /\ rx' = Seen(h)
               /\ wr' = out.wr
               /\ tx' = Accepted(IF NewRequest(h) THEN <<>> ELSE tx, out.wr)
               /\ req' = Blocked(Observe(req, h), out.wr)
               /\ allocs' = IF IsAlloc(h) THEN allocs + 1 ELSE allocs
               /\ submitted' = IF out.wr.attempted THEN 1 ELSE 0
               /\ UNCHANGED lib_vars

\* poll, endpoint_in_complete: one call of maybe_write_packet
WriteStep ==
  /\ ~panicked
  /\ \E w \in (IF state.tag \in {"ResponsePending", "Sending"}
               THEN WriteResults ELSE {UsbOk(PACKET_SIZE)}) :
       \E out \in {MaybeWritePacket(Self(state, buffer, last_channel), w)} :
          /\ state' = out.state
          /\ buffer' = out.buffer
          /\ last_channel' = out.last_channel
          /\ panicked' = out.panicked
          /\ rx' = NoRead
          /\ wr' = out.wr
          /\ tx' = Accepted(tx, out.wr)
          /\ req' = Blocked(req, out.wr)
          /\ UNCHANGED allocs
          /\ submitted' = IF out.wr.attempted THEN 1 ELSE 0
          /\ UNCHANGED lib_vars

Next == ReadStep \/ WriteStep

Spec == Init /\ [][Next]_vars

\* poll: one call of read_and_handle_packet, which leaves the pipe as first
\* (its wr the submission of that call), then one of maybe_write_packet
PollWrite(first, w2) ==
  IF first.panicked THEN [first EXCEPT !.wr = [attempted |-> FALSE]]
  ELSE MaybeWritePacket([first EXCEPT !.wr = [attempted |-> FALSE]], w2)

\* the answers the write endpoint may give to the second call of a poll
WritesAfter(first) ==
  IF ~first.panicked /\ first.state.tag \in {"ResponsePending", "Sending"}
  THEN WriteResults
  ELSE {UsbOk(PACKET_SIZE)}

\* one call of poll
PollStep ==
  /\ ~panicked
  /\ \E h \in HostMoves :
       /\ IsAlloc(h) => allocs < MaxAllocs
       /\ \E w1 \in WritesFor(h) :
          \E checked \in (IF last_channel = U32_MAX THEN BOOLEAN ELSE {FALSE}) :
          \E first \in {ReadAndHandlePacket(Self(state, buffer, last_channel),
                                            h.read, w1, checked)} :
          \E w2 \in WritesAfter(first) :
            \E out \in {PollWrite(first, w2)} :
               /\ state' = out.state
               /\ buffer' = out.buffer
               /\ last_channel' = out.last_channel
               /\ panicked' = out.panicked
               /\ rx' = Seen(h)
               /\ wr' = IF out.wr.attempted THEN out.wr ELSE first.wr
               /\ tx' = Accepted(Accepted(IF NewRequest(h) THEN <<>> ELSE tx,
                                          first.wr), out.wr)
               /\ req' = Blocked(Blocked(Observe(req, h), first.wr), out.wr)
               /\ allocs' = IF IsAlloc(h) THEN allocs + 1 ELSE allocs
               /\ submitted' = (IF first.wr.attempted THEN 1 ELSE 0)
                               + (IF out.wr.attempted THEN 1 ELSE 0)
               /\ UNCHANGED lib_vars

PollNext == PollStep

PollSpec == Init /\ [][PollNext]_vars

\* a call of maybe_write_packet whose packet the write endpoint accepts
WriteAccepted ==
  /\ WriteStep
  /\ wr'.attempted /\ wr'.result.ok /\ wr'.result.size = PACKET_SIZE

\* maybe_write_packet keeps being called, and the write endpoint does not
\* refuse for ever
LiveSpec == Init /\ [][Next]_vars /\ SF_vars(WriteAccepted)

\* the pipe after it has assigned channel ids up to u32::MAX - 1 or u32::MAX:
\* idle, the last reply still in the buffer
AllocStarts == {MkU32(U16_MAX, U16_MAX - 1), U32_MAX}

AllocInit ==
  /\ state = Idle
  /\ last_channel \in AllocStarts
  /\ buffer = CopyFromSlice([k \in 0..7 |-> Payload(1, k)], 8,
                            InitReply(last_channel))
  /\ panicked = FALSE
  /\ rx = NoRead
  /\ wr = [attempted |-> FALSE]
  /\ tx = <<>>
  /\ req = NoRequest
  /\ allocs = 0
  /\ submitted = 0
  /\ LibIdle

AllocSpec == AllocInit /\ [][Next]_vars

\* the lengths of the responses handed to start_sending
SendLengths == {0, 1, 56, 57, 58, 116, 117, 175, 176, 200, MESSAGE_SIZE}

\* start_sending is entered with the echo of a Ping request of length l
SendInit ==
  \E l \in SendLengths :
    /\ state = ResponsePending(Response(CH1, Cmd("Ping"), l))
    /\ buffer = Stored(PayloadOf(Desc(CH1, 129, l, 1)), l)
    /\ last_channel = CH1
    /\ panicked = FALSE
    /\ rx = NoRead
    /\ wr = [attempted |-> FALSE]
    /\ tx = <<>>
    /\ req = [active |-> TRUE, d |-> Desc(CH1, 129, l, 1),
              conts |-> Needed(l), wellformed |-> TRUE, blocked |-> FALSE,
              cancelled |-> FALSE]
    /\ allocs = 1
    /\ submitted = 0
    /\ LibIdle

SendNext == WriteStep

SendSpec == SendInit /\ [][SendNext]_vars

---------------------------------------------------------------------------
(* The DER writer in use: a writer over a caller's buffer, on which one     *)
(* operation is called, after write_all of some bytes or on its own (as in  *)
(* Keypair::asn1_sign_prehashed and in the tests of derpy.rs)               *)

\* the sizes of the caller's buffer
DerCapacities ==
  {0, 1, 2, 3, 5, 6, 8, 9, 10, 70, 71, 72, 73, 75, 131, 132, 134, 260, 264}

\* size_of::<usize>() of the builds
UsizeSizes == {4, 8}

\* n bytes, the first one b and no other zero
Filled(n, b) == [i \in 1..n |-> IF i = 1 THEN b ELSE 1 + ((i * 37) % 255)]

\* a 32-byte scalar with z leading zero bytes, then b
Scalar(z, b) ==
  [i \in 1..32 |-> IF i <= z THEN 0 ELSE IF i = z + 1 THEN b
                   ELSE 1 + ((i * 37) % 255)]

\* r and s of the test write_asn1_der_ecdsa_signature
TestR ==
  <<167, 156, 58, 251, 253, 197, 176, 208, 165, 146, 155, 16, 217, 152, 192,
    243, 206, 76, 214, 207, 207, 180, 237, 8, 156, 160, 64, 32, 147, 82, 213,
    158>>

TestS ==
  <<184, 156, 136, 100, 87, 142, 84, 61, 235, 27, 193, 223, 254, 97, 11, 111,
    80, 37, 46, 150, 121, 96, 165, 96, 65, 242, 211, 180, 175, 91, 158, 88>>

Scalars ==
  {Scalar(z, b) : z \in {0, 1, 31}, b \in {1, 127, 128, 255}}
    \cup {Scalar(32, 0), TestR, TestS}

\* the byte strings given to non_negative_integer
IntegerInputs ==
  Scalars
    \cup {<<>>, <<0>>, <<0, 0>>, <<1>>, <<127>>, <<128>>, <<0, 128>>,
          <<0, 0, 127>>, <<1, 0>>, <<128, 0>>, <<0, 0, 255, 0>>}
    \cup {Filled(127, 127), Filled(127, 128), <<0>> \o Filled(127, 128),
          Filled(128, 1)}

\* the values given to raw_tlv
TlvValues == {Filled(n, 1) : n \in {0, 1, 127, 128, 256}}

\* the lengths given to write_length_field
LengthInputs(size_of) ==
  {UsizeFrom(size_of, n) :
     n \in {0, 1, 127, 128, 129, 255, 256, 65535, 65536, 16777215, 16777216}}
    \cup {[i \in 1..(size_of \div 2) |-> U16_MAX]}
    \cup (IF size_of = 8
          THEN {<<0, 0, U16_MAX, U16_MAX>>, <<0, 1, 0, 0>>, <<256, 0, 0, 0>>}
          ELSE {})

\* the bytes written with write_all before the operation
Prefixes == {<<0>>, <<48, 3, 0>>}

DerOp(op, size_of, arg, result) ==
  [op |-> op, size_of |-> size_of, arg |-> arg,
   ok |-> result.ok, panicked |-> result.panicked]

\* Der::new over a zeroed buffer
DerInit ==
  /\ PipeInit
  /\ authcall = NoAuthCall
  /\ \E capacity \in DerCapacities, size_of \in UsizeSizes :
       /\ der = DerNew([i \in 1..capacity |-> 0])
       /\ derop = DerOp("new", size_of, <<>>, DerOk(der))

\* the writer is new, or only write_all has been called on it
DerFresh == derop.op \in {"new", "write_all"}

Returned(op, arg, result) ==
  /\ der' = result.der
  /\ derop' = DerOp(op, derop.size_of, arg, result)
  /\ UNCHANGED <<pipe_vars, authcall>>

DerWriteAll ==
  /\ derop.op = "new"
  /\ \E data \in Prefixes : Returned("write_all", data, WriteAll(der, data))

DerWriteLengthField ==
  /\ DerFresh /\ derop.ok
  /\ \E length \in LengthInputs(derop.size_of) :
       Returned("write_length_field", length, WriteLengthField(der, length))

DerRawTlv ==
  /\ DerFresh /\ derop.ok
  /\ \E tag \in {TAG_INTEGER, TAG_SEQUENCE}, value \in TlvValues :
       Returned("raw_tlv", <<tag, value>>,
                RawTlv(der, tag, value, derop.size_of))

DerNonNegativeInteger ==
  /\ DerFresh /\ derop.ok
  /\ \E integer \in IntegerInputs :
       Returned("non_negative_integer", integer,
                NonNegativeInteger(der, integer, derop.size_of))

DerEcdsaSigValue ==
  /\ DerFresh /\ derop.ok
  /\ \E r \in Scalars, s \in Scalars :
       Returned("sequence", <<r, s>>,
                EcdsaSigValue(der, r, s, derop.size_of))

DerNext ==
  \/ DerWriteAll
  \/ DerWriteLengthField
  \/ DerRawTlv
  \/ DerNonNegativeInteger
  \/ DerEcdsaSigValue

DerSpec == DerInit /\ [][DerNext]_vars

---------------------------------------------------------------------------
(* The authenticator in use: make_credential, then get_assertions with an   *)
(* allow list of credential ids the authenticator has issued               *)

\* the lengths of clientDataHash (a Bytes<U32> holds at most 32 bytes)
HashLengths == {0, 31, 32}

Algs == {-7, -8, -257}

\* pubKeyCredParams of up to two entries
AlgLists ==
  {<<>>} \cup {<<[alg |-> a]>> : a \in Algs}
         \cup {<<[alg |-> a], [alg |-> b]>> : a \in Algs, b \in Algs}

OptionValues == {None, Some(FALSE), Some(TRUE)}

OptionInputs ==
  {None} \cup {Some([rk |-> rk, uv |-> uv]) :
                 rk \in OptionValues, uv \in OptionValues}

UserIdLengths == {1, 23, 24, 64}

UserIds == {Filled(n, 7) : n \in UserIdLengths}

MakeCredentialInputs ==
  {[client_data_hash |-> Filled(n, 1), rp |-> [id |-> "example.org"],
    user |-> [id |-> u], pub_key_cred_params |-> algs, options |-> options] :
     n \in HashLengths, u \in UserIds, algs \in AlgLists,
     options \in OptionInputs}

\* the credential id the host reads in an authData with attested
\* credential data: after rpIdHash[32], flags[1], signCount[4], aaguid[16]
CredentialIdIn(auth_data) ==
  SubSeq(auth_data, 56, 55 + auth_data[54] * 256 + auth_data[55])

\* the credential ids make_credential returns
IssuedIds ==
  {CredentialIdIn(
     MakeCredential(InsecureRamAuthenticator,
                    [client_data_hash |-> Filled(32, 1),
                     rp |-> [id |-> "example.org"], user |-> [id |-> u],
                     pub_key_cred_params |-> <<[alg |-> a]>>,
                     options |-> None]).value.auth_data) :
     u \in UserIds, a \in {-7, -8}}

\* the descriptors the host can send: of the issued ids that fit one, and of
\* an id that is not a credential id
Descriptors ==
  {d.value : d \in {x \in {PublicKeyCredentialDescriptor(id) :
                             id \in IssuedIds \cup {<<1, 2, 3>>}} : x.some}}

\* allowList of up to two entries
AllowLists ==
  {<<>>} \cup {<<d>> : d \in Descriptors}
         \cup {<<d, e>> : d \in Descriptors, e \in Descriptors}

GetAssertionInputs ==
  {[rp_id |-> "example.org", client_data_hash |-> Filled(32, 2),
    allow_list |-> l] : l \in AllowLists}

AuthReturned(op, params, result) ==
  /\ authcall' = [op |-> op, params |-> params, result |-> result]
  /\ UNCHANGED <<pipe_vars, der, derop>>

AuthMakeCredential ==
  /\ authcall.op = "none"
  /\ \E params \in MakeCredentialInputs :
       AuthReturned("make_credential", params,
                    MakeCredential(InsecureRamAuthenticator, params))

AuthGetAssertions ==
  /\ authcall.op \in {"none", "make_credential"}
  /\ \E params \in GetAssertionInputs :
       AuthReturned("get_assertions", params,
                    GetAssertions(InsecureRamAuthenticator, params))

AuthNext == AuthMakeCredential \/ AuthGetAssertions

AuthSpec == Init /\ [][AuthNext]_vars

---------------------------------------------------------------------------
(* The response the host expects to a request *)

\* packet number n (0: the initialisation packet) of a message with the
\* given channel, command byte and payload bytes pay[0..length-1]
MessagePacket(channel, cmd, length, pay, n) ==
  [i \in 0..(PACKET_SIZE - 1) |->
     IF i < 4 THEN U32ToBeBytes(channel)[i]
     ELSE IF n = 0
          THEN (IF i = 4 THEN cmd
                ELSE IF i < 7 THEN U16ToBeBytes(length)[i - 5]
                ELSE IF i - 7 < length THEN pay[i - 7] ELSE 0)
          ELSE (IF i = 4 THEN n - 1
                ELSE IF 57 + 59 * (n - 1) + (i - 5) < length
                     THEN pay[57 + 59 * (n - 1) + (i - 5)] ELSE 0)]

\* the echo of request d, packet by packet
Echo(d) ==
  [n \in 1..(Needed(d.length) + 1) |->
     MessagePacket(d.channel, d.cmd, d.length, PayloadOf(d), n - 1)]

IsPrefix(s, t) == Len(s) <= Len(t) /\ \A i \in 1..Len(s) : s[i] = t[i]

---------------------------------------------------------------------------
(* Claims *)

\* C1: a request of more than 57 bytes that the host has delivered as one
\* initialisation packet and all its continuation packets, in order and on
\* one channel, has taken the pipe out of Receiving, and the buffer holds its
\* payload.
C1_MultiPacketRequestCompletes ==
  (req.active /\ req.wellformed /\ req.d.length > 57 /\ Delivered(req))
    => /\ state.tag # "Receiving"
       /\ \A k \in 0..(req.d.length - 1) :
            BufAt(buffer, k) = Payload(req.d.seed, k)

\* C2: once a Ping request has been delivered, the pipe is answering it: the
\* packets accepted so far are the first packets of the echo of the request,
\* and all of them when the pipe is idle again (as long as the write endpoint
\* has accepted what was submitted to it).
C2_PingEchoed ==
  (req.active /\ req.wellformed /\ req.d.cmd = 129 /\ Delivered(req)
   /\ ~req.blocked /\ ~panicked)
    => /\ state.tag \in {"ResponsePending", "Sending", "Idle"}
       /\ IsPrefix(tx, Echo(req.d))
       /\ state = Idle => tx = Echo(req.d)

\* C3: a continuation packet with a sequence byte other than next_sequence,
\* read while Receiving, puts the pipe in Idle.
C3_SequenceMismatchAborts ==
  [][(state.tag = "Receiving" /\ rx'.kind = "cont"
      /\ rx'.seq # state.message_state.next_sequence)
       => state' = Idle]_vars

\* C4: a continuation packet with the expected sequence byte on a channel
\* other than the request's, read while Receiving, puts the pipe in Idle.
C4_ChannelMismatchAborts ==
  [][(state.tag = "Receiving" /\ rx'.kind = "cont"
      /\ rx'.seq = state.message_state.next_sequence
      /\ rx'.channel # state.request.channel)
       => state' = Idle /\ ~wr'.attempted]_vars

\* C5: after the write endpoint has answered WouldBlock to the first packet
\* of a response, the pipe is in ResponsePending and the packet it would
\* submit next is that same packet.
C5_WouldBlockKeepsResponsePending ==
  (wr.attempted /\ ~wr.result.ok /\ wr.result.error = "WouldBlock"
   /\ IsInitialization(wr.packet))
    => /\ state.tag = "ResponsePending"
       /\ FirstPacket(state.response, buffer,
                      FitsInOnePacket(state.response)) = wr.packet

\* C6: a response that has been transmitted in full took one accepted packet
\* when its declared length is at most 57, and ceil((length - 57) / 59) + 1
\* otherwise, whatever the number of WouldBlock answers in between.
C6_PacketCount ==
  (state = Idle /\ tx # <<>> /\ ~panicked)
    => LET length == tx[1][5] * 256 + tx[1][6]
       IN Len(tx) = IF length <= 57 THEN 1
                    ELSE ((length - 57) + 58) \div 59 + 1

C6_Witness ==
  /\ state = Idle /\ req.blocked
  /\ Len(tx) = 4 /\ tx[1][5] * 256 + tx[1][6] = 200

\* the reply to the n-th channel request with the given nonce seed
ChannelReply(seed, n) ==
  [i \in 0..(PACKET_SIZE - 1) |->
     CASE i < 4 -> 255
       [] i = 4 -> 134
       [] i = 5 -> 0
       [] i = 6 -> 17
       [] i >= 7 /\ i < 15 -> Payload(seed, i - 7)
       [] i >= 15 /\ i < 18 -> 0
       [] i = 18 -> n
       [] i = 19 -> 2
       [] i = 23 -> 5
       [] OTHER -> 0]

\* C7: the call that handles an Init request of length 8 on the broadcast
\* channel submits one packet, FFFFFFFF 86 0011, the nonce, the new channel
\* id, 02 00 00 00 05 and zeros; the n-th request is assigned channel id n,
\* the first one 1; the pipe is idle afterwards.
C7_InitReply ==
  [][(allocs' = allocs + 1)
       => /\ wr'.attempted
          /\ wr'.packet = ChannelReply(req'.d.seed, allocs')
          /\ last_channel' = MkU32(0, allocs')
          /\ state' = Idle]_vars

C7_Witness ==
  /\ allocs = 1 /\ last_channel = MkU32(0, 1)
  /\ wr.attempted /\ wr.result.ok /\ wr.packet[4] = 134
  /\ tx = <<wr.packet>>

U32Less(a, b) == a.hi < b.hi \/ (a.hi = b.hi /\ a.lo < b.lo)

\* C8: every channel id handed out is neither 0 nor 0xFFFFFFFF and greater
\* than the one handed out before, hence different from all earlier ones.
C8_ChannelIdsFresh ==
  [][(allocs' = allocs + 1 /\ ~panicked')
       => /\ last_channel' # U32_ZERO
          /\ last_channel' # BROADCAST
          /\ U32Less(last_channel, last_channel')]_vars

C10_IdleLeftOnlyByValidInit ==
  [][(state = Idle /\ ~(rx'.kind = "init" /\ rx'.valid))
       => /\ state' = Idle
          /\ buffer' = buffer
          /\ last_channel' = last_channel
          /\ ~wr'.attempted
          /\ tx' = tx]_vars

C10_Witness ==
  /\ state = Idle /\ rx.kind = "init" /\ ~rx.valid /\ ~wr.attempted

Min(a, b) == IF a <= b THEN a ELSE b

\* payload bytes carried by a submitted packet: the declared length of an
\* initialisation packet, or that of the accepted initialisation packet of
\* the response a continuation packet belongs to, decides
Carried(packet, log) ==
  IF packet[4] >= 128
  THEN Min(57, packet[5] * 256 + packet[6])
  ELSE LET length == log[1][5] * 256 + log[1][6]
           from == 57 + 59 * packet[4]
       IN IF length <= from THEN 0 ELSE Min(59, length - from)

\* C11: every packet submitted to the write endpoint has 64 bytes, and every
\* byte after its header (7 bytes, 5 in a continuation packet) and the payload
\* bytes it carries is zero.
C11_PacketsFullAndPadded ==
  wr.attempted
    => /\ DOMAIN wr.packet = 0..63
       /\ \A i \in 0..63 : wr.packet[i] \in 0..255
       /\ LET header == IF wr.packet[4] >= 128 THEN 7 ELSE 5
          IN \A i \in (header + Carried(wr.packet, tx))..63 : wr.packet[i] = 0

C11_Witness ==
  /\ wr.attempted /\ wr.result.ok /\ wr.packet[4] = 0
  /\ tx[1][5] * 256 + tx[1][6] = 58
  /\ wr.packet[5] # 0
  /\ buffer # <<>> /\ BufAt(buffer, 58) # 0

\* C12: a poll that finds no packet at the read endpoint while the pipe is
\* Idle, Receiving or Processing changes neither the state, nor the buffer,
\* nor last_channel, and submits nothing to the write endpoint.
C12_PollWithNothingPendingIsNoOp ==
  [][(state.tag \in {"Idle", "Receiving", "Processing"} /\ rx'.kind = "none")
       => /\ state' = state
          /\ buffer' = buffer
          /\ last_channel' = last_channel
          /\ submitted' = 0
          /\ tx' = tx
          /\ ~panicked']_vars

C12_Witness ==
  /\ state.tag \in {"Receiving", "Processing"} /\ rx.kind = "none"
  /\ submitted = 0

\* C13: the pipe is always in one of Idle, Receiving, Processing,
\* ResponsePending and Sending, and while it is Receiving,
\* 57 <= transmitted <= request.length <= 7609.
C13_StateWellFormed ==
  /\ state.tag \in {"Idle", "Receiving", "Processing", "ResponsePending",
                    "Sending"}
  /\ state.tag = "Idle" => state = Idle
  /\ state.tag = "Receiving" =>
       /\ DOMAIN state = {"tag", "request", "message_state"}
       /\ 57 <= state.message_state.transmitted
       /\ state.message_state.transmitted <= state.request.length
       /\ state.request.length <= 7609
  /\ state.tag = "Processing" => DOMAIN state = {"tag", "request"}
  /\ state.tag = "ResponsePending" => DOMAIN state = {"tag", "response"}
  /\ state.tag = "Sending" =>
       DOMAIN state = {"tag", "response", "message_state"}

C13_Witness ==
  /\ state.tag = "Receiving" /\ state.request.length = 7609
  /\ rx.kind = "cont"

\* C14: the continuation packets the write endpoint has accepted for a
\* response carry the channel of its initialisation packet and the sequence
\* bytes 0, 1, 2, ... in order, and continuation k carries the bytes of the
\* response from 57 + 59k on, up to its length; for the echo of a Ping these
\* are the bytes of the request.
C14_ContinuationsInOrder ==
  \A n \in 2..Len(tx) :
    LET k == n - 2
        length == tx[1][5] * 256 + tx[1][6]
    IN /\ \A i \in 0..3 : tx[n][i] = tx[1][i]
       /\ tx[n][4] = k
       /\ 57 + 59 * k < length
       /\ \A i \in 0..58 :
            57 + 59 * k + i < length
              => /\ tx[n][5 + i] = BufAt(buffer, 57 + 59 * k + i)
                 /\ (req.wellformed /\ req.d.cmd = 129)
                      => tx[n][5 + i] = Payload(req.d.seed, 57 + 59 * k + i)

C14_Witness ==
  /\ state = Idle /\ Len(tx) = 129 /\ tx[129][4] = 127
  /\ tx[129][63] = Payload(1, MESSAGE_SIZE - 1)

\* C15: a poll submits at most one packet to the write endpoint, the poll in
\* which a request completes and its response is started included (a poll
\* calls read_and_handle_packet once, which reads once).
C15_OneSubmissionPerPoll == submitted <= 1

\* the command bytes of Msg, Lock, Cancel, KeepAlive, Error and the vendor
\* commands, bit 7 set
UnhandledCommandBytes == {131, 132, 145, 187, 191} \cup (192..255)

\* C16: once a complete request with the command Msg, Lock, Cancel, KeepAlive,
\* Error or a vendor command has been handled, the pipe is Idle and no packet
\* has been submitted for it.
C16_UnhandledCommandDropped ==
  (req.active /\ req.wellformed /\ Delivered(req)
     /\ req.d.cmd \in UnhandledCommandBytes)
    => /\ state = Idle
       /\ tx = <<>>
       /\ ~wr.attempted

\* C17: once the host has sent a Cancel initialisation packet on the channel
\* of the request the pipe was processing, the pipe is Idle, and no packet of
\* a response to that request has been submitted.
C17_CancelReturnsToIdle ==
  req.cancelled => (state = Idle /\ tx = <<>> /\ ~wr.attempted)

\* C18: when the pipe is in Processing, ResponsePending or Sending, it is
\* eventually Idle again (or the program has panicked on an endpoint error),
\* provided the calls go on and the write endpoint accepts a packet again
\* and again.
C18_EventuallyIdle ==
  (state.tag \in {"Processing", "ResponsePending", "Sending"})
    ~> (state = Idle \/ panicked)

\* the operation codes of make_credential, get_assertion, get_info,
\* client_pin, reset, get_next_assertion and the vendor operations
DefinedOperationBytes == {1, 2, 4, 6, 7, 8} \cup (64..127)

\* C19: once a complete Cbor request whose first payload byte is a defined
\* operation code has been handled, and the write endpoint has neither
\* refused nor failed, the endpoint has accepted the first packet of a Cbor
\* response on the channel of the request with a payload of at least one
\* byte.
C19_CborAnswered ==
  (req.active /\ req.wellformed /\ Delivered(req) /\ req.d.cmd = 144
     /\ req.d.length >= 1 /\ Payload(req.d.seed, 0) \in DefinedOperationBytes
     /\ ~req.blocked /\ ~panicked)
    => /\ Len(tx) >= 1
       /\ \A i \in 0..3 : tx[1][i] = U32ToBeBytes(req.d.channel)[i]
       /\ tx[1][4] = 144
       /\ tx[1][5] * 256 + tx[1][6] >= 1

\* C20: after an initialisation packet on channel 0, or on channel 0xFFFFFFFF
\* with a command other than Init, read while the pipe was Idle, the pipe is
\* Idle and no packet has been submitted in answer.
C20_ReservedChannelDropped ==
  (req.active
     /\ \/ req.d.channel = U32_ZERO
        \/ req.d.channel = BROADCAST /\ req.d.cmd # 134)
    => /\ state = Idle
       /\ ~wr.attempted
       /\ tx = <<>>

\* the four bytes of a channel id, most significant first
ChannelByte(channel, i) ==
  CASE i = 0 -> channel.hi \div 256
    [] i = 1 -> channel.hi % 256
    [] i = 2 -> channel.lo \div 256
    [] OTHER -> channel.lo % 256

GetInfoPayload ==
  <<0, 164, 1, 129, 104, 70, 73, 68, 79, 95, 50, 95, 48,
    3, 80, 65, 65, 71, 85, 73, 68, 48, 49, 50, 51, 52, 53, 54, 55, 56, 57,
    4, 163, 98, 114, 107, 244, 98, 117, 112, 245, 100, 112, 108, 97, 116, 244,
    5, 25, 29, 185>>

\* C22: the call that completes a Cbor request with payload 04 submits the
\* packet channel || 90 || 00 33 || status 00 and the map {1: [FIDO_2_0],
\* 3: aaguid, 4: {rk: false, up: true, plat: false}, 5: 7609} || zeros, the
\* same bytes whatever the pipe has handled before, and the buffer starts
\* with that payload.
C22_GetInfoAnswered ==
  [][(state = Idle /\ rx'.kind = "init" /\ rx'.valid /\ req'.d.cmd = 144
        /\ req'.d.length = 1 /\ Payload(req'.d.seed, 0) = 4)
       => /\ wr'.attempted
          /\ wr'.packet =
               [i \in 0..(PACKET_SIZE - 1) |->
                  IF i < 4 THEN ChannelByte(req'.d.channel, i)
                  ELSE IF i = 4 THEN 144
                  ELSE IF i = 5 THEN 0
                  ELSE IF i = 6 THEN Len(GetInfoPayload)
                  ELSE IF i - 7 < Len(GetInfoPayload)
                       THEN GetInfoPayload[i - 6]
                       ELSE 0]
          /\ \A k \in 1..Len(GetInfoPayload) :
               BufAt(buffer', k - 1) = GetInfoPayload[k]
          /\ state' = Idle]_vars

C22_Witness ==
  /\ wr.attempted /\ wr.result.ok /\ wr.packet[4] = 144 /\ wr.packet[6] = 51
  /\ req.d.cmd = 144 /\ req.d.seed = 4
  /\ tx = <<wr.packet>> /\ state = Idle
  /\ BufAt(buffer, 51) # 0

\* C23: a continuation packet read while the pipe is Idle, Processing,
\* ResponsePending or Sending changes neither the state, nor the buffer, nor
\* last_channel, and nothing is submitted to the write endpoint.
C23_ContinuationDroppedOutsideReceiving ==
  [][(state.tag # "Receiving" /\ rx'.kind = "cont")
       => /\ state' = state
          /\ buffer' = buffer
          /\ last_channel' = last_channel
          /\ ~wr'.attempted
          /\ submitted' = 0
          /\ tx' = tx
          /\ ~panicked']_vars

C23_Witness ==
  /\ state.tag = "Sending" /\ rx.kind = "cont"
  /\ rx.channel = state.response.channel
  /\ rx.seq = state.message_state.next_sequence
  /\ ~wr.attempted /\ Len(tx) = 1

\* the write endpoint has answered WouldBlock to a continuation packet
ContinuationBlocked(attempt) ==
  /\ attempt.attempted
  /\ ~attempt.result.ok /\ attempt.result.error = "WouldBlock"
  /\ attempt.packet[4] < 128

\* C24: a call in Sending whose continuation packet the write endpoint
\* answers with WouldBlock leaves the state (next_sequence and transmitted
\* included), the buffer and the accepted packets as they are, and the next
\* packet submitted is the identical packet.
C24_WouldBlockRepeatsContinuation ==
  [][/\ (state.tag = "Sending" /\ ContinuationBlocked(wr'))
          => (state' = state /\ buffer' = buffer /\ tx' = tx /\ ~panicked')
     /\ (ContinuationBlocked(wr) /\ wr'.attempted)
          => wr'.packet = wr.packet]_vars

C24_Witness ==
  /\ state.tag = "Sending" /\ state.message_state.next_sequence = 1
  /\ ContinuationBlocked(wr) /\ wr.packet[4] = 1
  /\ Len(tx) = 2 /\ req.blocked

\* the bytes the last writer operation has added to the writer
Written == SubSeq(der'.buffer, der.offset + 1, der'.offset)

\* the usize of the given number of limbs whose big-endian representation,
\* leading zero bytes removed, is bytes
BeValue(bytes, limbs) ==
  LET pad == 2 * limbs - Len(bytes)
      full == [i \in 1..(2 * limbs) |-> IF i <= pad THEN 0 ELSE bytes[i - pad]]
  IN [i \in 1..limbs |-> full[2 * i - 1] * 256 + full[2 * i]]

\* C25: the length field written for a length n is the single byte n when
\* n < 128, and otherwise the byte 0x80|k followed by the k-byte big-endian
\* representation of n without a leading zero byte, for the lengths of a
\* 4-byte and of an 8-byte usize; 2^32-1 is written as 84 FF FF FF FF.
C25_LengthField ==
  [][(derop'.op = "write_length_field" /\ derop'.ok)
       => LET n == derop'.arg
              low == n[Len(n)]
              high == {n[i] : i \in 1..(Len(n) - 1)}
              k == Len(Written) - 1
          IN /\ IF high = {0} /\ low < 128 THEN Written = <<low>>
                ELSE /\ k >= 1 /\ k <= derop.size_of
                     /\ Written[1] = 128 + k
                     /\ Written[2] # 0
                     /\ BeValue(Tail(Written), Len(n)) = n
             /\ (n = <<U16_MAX, U16_MAX>> \/ n = <<0, 0, U16_MAX, U16_MAX>>)
                  => Written = <<132, 255, 255, 255, 255>>]_vars

C25_Witness ==
  /\ derop.op = "write_length_field" /\ derop.ok /\ derop.size_of = 8
  /\ derop.arg = <<0, 0, U16_MAX, U16_MAX>>
  /\ Len(der.buffer) = 6
  /\ DerDeref(der) = <<0, 132, 255, 255, 255, 255>>

\* a byte string without its leading zero bytes
WithoutLeadingZeros(bytes) ==
  LET nonzero == {i \in 1..Len(bytes) : bytes[i] # 0}
  IN IF nonzero = {} THEN <<>>
     ELSE SubSeq(bytes, CHOOSE i \in nonzero : \A j \in nonzero : i <= j,
                 Len(bytes))

\* the DER length field of a length below 65536
LengthFieldOf(n) ==
  IF n < 128 THEN <<n>>
  ELSE IF n < 256 THEN <<129, n>>
  ELSE <<130, n \div 256, n % 256>>

\* 02, the length field and the content
IntegerOf(content) == <<2>> \o LengthFieldOf(Len(content)) \o content

\* C26, as stated: for every byte string given to non_negative_integer the
\* output is 02, the length field, and the input without its leading zero
\* bytes, preceded by one 0x00 byte if and only if the first remaining byte
\* has bit 7 set.
C26_PadIffTopBit ==
  [][(derop'.op = "non_negative_integer" /\ derop'.ok)
       => LET rest == WithoutLeadingZeros(derop'.arg)
              pad == IF rest # <<>> /\ rest[1] >= 128 THEN <<0>> ELSE <<>>
          IN Written = IntegerOf(pad \o rest)]_vars

\* C26, amended: the 0x00 byte is written if and only if no byte remains or
\* the first remaining byte has bit 7 set; the content is never empty, its
\* top bit is never set, and it is of minimal length.
C26_PadIffTopBitOrZero ==
  [][(derop'.op = "non_negative_integer" /\ derop'.ok)
       => LET rest == WithoutLeadingZeros(derop'.arg)
              pad == IF rest = <<>> \/ rest[1] >= 128 THEN <<0>> ELSE <<>>
              content == pad \o rest
          IN /\ Written = IntegerOf(content)
             /\ content[1] < 128
             /\ Len(content) > 1 => (content[1] # 0 \/ content[2] >= 128)]_vars

C26_Witness ==
  /\ derop.op = "non_negative_integer" /\ derop.ok
  /\ derop.arg = <<0, 0>>
  /\ DerDeref(der) = <<2, 1, 0>>

\* the INTEGER that starts at index i of bytes, its length in one byte
ParseInteger(bytes, i) ==
  LET n == bytes[i + 1]
  IN [ok |-> i + 1 <= Len(bytes) /\ bytes[i] = 2 /\ n < 128
             /\ i + 1 + n <= Len(bytes),
      content |-> SubSeq(bytes, i + 2, i + 1 + n),
      next |-> i + 2 + n]

\* a non-negative integer as a 32-byte scalar
LeftPad32(content) ==
  LET v == WithoutLeadingZeros(content)
      pad == 32 - Len(v)
  IN [i \in 1..32 |-> IF i <= pad THEN 0 ELSE v[i - pad]]

\* the content of a non-negative INTEGER of minimal length
Minimal(content) ==
  /\ content # <<>>
  /\ content[1] < 128
  /\ Len(content) > 1 => (content[1] # 0 \/ content[2] >= 128)

\* C27: for every pair (r, s) of 32-byte scalars, the SEQUENCE of INTEGER r
\* and INTEGER s the writer produces starts with 30, its length byte is the
\* number of bytes that follow, each INTEGER is of minimal length, and the two
\* integers parsed back and left-padded to 32 bytes are r and s.
C27_SignatureRoundTrip ==
  [][(derop'.op = "sequence" /\ derop'.ok)
       => LET r == derop'.arg[1]
              s == derop'.arg[2]
              first == ParseInteger(Written, 3)
              second == ParseInteger(Written, first.next)
          IN /\ Written[1] = 48
             /\ Written[2] = Len(Written) - 2
             /\ first.ok /\ second.ok
             /\ second.next = Len(Written) + 1
             /\ Minimal(first.content) /\ Minimal(second.content)
             /\ LeftPad32(first.content) = r
             /\ LeftPad32(second.content) = s]_vars

C27_Witness ==
  /\ derop.op = "sequence" /\ derop.ok
  /\ derop.arg = <<TestR, TestS>>
  /\ Len(der.buffer) = 72
  /\ DerDeref(der) = <<48, 70, 2, 33, 0>> \o TestR \o <<2, 33, 0>> \o TestS

\* the content of the INTEGER of a byte string
ContentOf(bytes) ==
  LET rest == WithoutLeadingZeros(bytes)
  IN (IF rest = <<>> \/ rest[1] >= 128 THEN <<0>> ELSE <<>>) \o rest

\* the number of bytes of a tag, the length field and n bytes of value
TlvSize(n) == 1 + Len(LengthFieldOf(n)) + n

\* the number of bytes of the complete output of a writer operation
OutputSize(op, arg) ==
  CASE op = "raw_tlv" -> TlvSize(Len(arg[2]))
    [] op = "non_negative_integer" -> TlvSize(Len(ContentOf(arg)))
    [] op = "sequence" -> TlvSize(TlvSize(Len(ContentOf(arg[1])))
                                  + TlvSize(Len(ContentOf(arg[2]))))

\* C28: raw_tlv, non_negative_integer and sequence return the overflow error
\* when their complete output does not fit in what is left of the caller's
\* buffer and succeed when it fits; no index outside the buffer is written,
\* and the bytes before the writer's offset stay as they were.
C28_OverflowIffOutputDoesNotFit ==
  [][derop'.op \in {"raw_tlv", "non_negative_integer", "sequence"}
       => /\ ~derop'.panicked
          /\ Len(der'.buffer) = Len(der.buffer)
          /\ der'.offset <= Len(der'.buffer)
          /\ SubSeq(der'.buffer, 1, der.offset) = DerDeref(der)
          /\ derop'.ok <=> (OutputSize(derop'.op, derop'.arg)
                              <= Len(der.buffer) - der.offset)
          /\ derop'.ok => Len(Written) = OutputSize(derop'.op, derop'.arg)]_vars

C28_Witness ==
  /\ derop.op = "sequence" /\ ~derop.ok /\ ~derop.panicked
  /\ derop.arg = <<TestR, TestS>>
  /\ Len(der.buffer) = 71 /\ der.offset = 70

\* an option of make_credential is Some(true)
OptionSet(options, name) == options.some /\ options.value[name] = Some(TRUE)

\* C29: make_credential returns InvalidLength when clientDataHash is not 32
\* bytes long; otherwise UnsupportedAlgorithm when pubKeyCredParams holds
\* neither alg -7 nor alg -8; otherwise UnsupportedOption when option rk or
\* option uv is true; in each case no attestation object is returned.
C29_MakeCredentialErrorOrder ==
  authcall.op = "make_credential"
    => LET p == authcall.params
           r == authcall.result
           algs == {p.pub_key_cred_params[i].alg :
                      i \in 1..Len(p.pub_key_cred_params)}
           expected ==
             IF Len(p.client_data_hash) # 32 THEN "InvalidLength"
             ELSE IF algs \cap {-7, -8} = {} THEN "UnsupportedAlgorithm"
             ELSE IF OptionSet(p.options, "rk") \/ OptionSet(p.options, "uv")
               THEN "UnsupportedOption"
             ELSE "none"
       IN /\ ~r.panicked
          /\ expected # "none" => (~r.ok /\ r.error = expected)
          /\ r.ok => expected = "none"

C29_Witness ==
  /\ authcall.op = "make_credential"
  /\ Len(authcall.params.client_data_hash) = 32
  /\ authcall.params.pub_key_cred_params = <<[alg |-> -257]>>
  /\ OptionSet(authcall.params.options, "rk")
  /\ ~authcall.result.ok /\ authcall.result.error = "UnsupportedAlgorithm"

\* C30: get_assertions returns NoCredentials when allowList is empty, and
\* for a non-empty allowList of one or of several entries whose first id is a
\* credential id the authenticator has issued it returns normally, with the
\* assertion of the first entry.
C30_FirstOfAllowList ==
  authcall.op = "get_assertions"
    => LET l == authcall.params.allow_list
           r == authcall.result
       IN /\ l = <<>> => (~r.ok /\ ~r.panicked /\ r.error = "NoCredentials")
          /\ (l # <<>> /\ l[1].id \in IssuedIds)
               => /\ r.ok
                  /\ r.value[1].credential = Some(l[1])
                  /\ r.value[1].user =
                       Some([id |-> Deserialize(l[1].id).value.user_id])

\* C34: when the pipe is Receiving and reads the continuation packet it
\* expects (the next packet of the request the host is delivering) and the
\* message is not complete with it, the 59 payload bytes are in the buffer
\* from offset transmitted, and the state the pipe keeps is Receiving with
\* next_sequence increased by 1 and transmitted increased by 59.
C34_ContinuationAdvancesMessageState ==
  [][(/\ state.tag = "Receiving"
      /\ rx'.kind = "cont"
      /\ rx'.seq = state.message_state.next_sequence
      /\ rx'.channel = state.request.channel
      /\ req.wellformed /\ req'.wellformed /\ req'.conts = req.conts + 1
      /\ state.message_state.transmitted + 59 < state.request.length)
       => LET ms == state.message_state
              packet == HostCont(req.d.channel, req.conts, req.d.length,
                                 req.d.seed)
          IN /\ \A k \in 0..58 :
                  BufAt(buffer', ms.transmitted + k) = packet[5 + k]
             /\ state' = Receiving(state.request,
                                   [next_sequence |-> ms.next_sequence + 1,
                                    transmitted |-> ms.transmitted + 59])]_vars

\* a response has entered ResponsePending and its last packet has not been
\* accepted: the pipe is in ResponsePending or Sending, or the write endpoint
\* has just refused the only packet of the response
ResponseUnsent ==
  \/ state.tag \in {"ResponsePending", "Sending"}
  \/ wr.attempted /\ ~wr.result.ok /\ wr.result.error = "WouldBlock"

ResponseLength ==
  IF state.tag \in {"ResponsePending", "Sending"} THEN state.response.length
  ELSE U16FromBeBytes(Slice(wr.packet, 5, 7))

\* C35: while a response has entered ResponsePending and its last packet has
\* not been accepted by the write endpoint, no packet that is read changes
\* any of the first response.length bytes of the buffer.
C35_ResponseBytesKept ==
  [][(ResponseUnsent /\ rx'.kind # "none")
       => \A k \in 0..(ResponseLength - 1) :
            BufAt(buffer', k) = BufAt(buffer, k)]_vars

\* the packets accepted since the pipe last left Idle are the first packets
\* of one message: an initialisation packet, then continuation packets 0, 1,
\* ... on the same channel, no more than the declared length needs
OneMessage(log) ==
  log # <<>>
    => /\ log[1][4] >= 128
       /\ Len(log) <= 1 + Needed(log[1][5] * 256 + log[1][6])
       /\ \A i \in 2..Len(log) :
            /\ log[i][4] = i - 2
            /\ \A k \in 0..3 : log[i][k] = log[1][k]

\* C36: a packet is submitted only by a call that finds the pipe in
\* ResponsePending or Sending, or that reads the last packet of a request (a
\* valid initialisation packet of at most 57 payload bytes read in Idle, or
\* the last continuation packet the request needs, read in Receiving on the
\* request's channel); and the packets accepted since the pipe last left Idle
\* are the packets of one response message, in order.
C36_OneResponsePerTransaction ==
  [][/\ wr'.attempted
          => \/ state.tag \in {"ResponsePending", "Sending"}
             \/ /\ state = Idle
                /\ rx'.kind = "init" /\ rx'.valid /\ req'.d.length <= 57
             \/ /\ state.tag = "Receiving"
                /\ rx'.kind = "cont"
                /\ rx'.channel = state.request.channel
                /\ rx'.seq = Needed(state.request.length) - 1
     /\ OneMessage(tx')]_vars

C36_Witness ==
  /\ state = Idle /\ Len(tx) = 2
  /\ tx[1][4] = 129 /\ tx[1][5] * 256 + tx[1][6] = 116
  /\ tx[2][4] = 0
  /\ req.blocked

\* C37: a continuation packet submitted while a response of at most 7609
\* bytes is sent carries next_sequence as its sequence byte, which is at most
\* 0x7F: bit 7 of byte 4 is clear, and next_sequence stays below 256.
C37_SequenceByteAtMost0x7F ==
  [][(state.tag = "Sending" /\ state.response.length <= 7609 /\ wr'.attempted)
       => /\ wr'.packet[4] = state.message_state.next_sequence
          /\ wr'.packet[4] <= 127
          /\ Shr7(wr'.packet[4]) = 0
          /\ state'.tag = "Sending"
               => state'.message_state.next_sequence <= 127]_vars

C37_Witness ==
  /\ state = Idle /\ Len(tx) = 129
  /\ wr.attempted /\ wr.result.ok /\ wr.packet[4] = 127
  /\ tx[1][5] * 256 + tx[1][6] = 7609

\* C38: in every Sending state transmitted is 57 + 59 * next_sequence and is
\* smaller than response.length, so response.length - transmitted does not
\* underflow and the slice of the next continuation packet ends within the
\* first response.length bytes of the buffer.
C38_SendingStateConsistent ==
  state.tag = "Sending"
    => LET ms == state.message_state
           remaining == state.response.length - ms.transmitted
       IN /\ ms.transmitted = 57 + 59 * ms.next_sequence
          /\ ms.transmitted < state.response.length
          /\ remaining > 0
          /\ ms.transmitted + Min(remaining, 59) <= state.response.length
          /\ state.response.length <= MESSAGE_SIZE

C38_Witness ==
  /\ state.tag = "Sending"
  /\ state.message_state = [next_sequence |-> 127, transmitted |-> 7550]
  /\ state.response.length = 7609

\* the write endpoint has answered an error other than WouldBlock, or a
\* number of written bytes other than 64
UnexpectedResult(w) ==
  \/ ~w.ok /\ w.error # "WouldBlock"
  \/ w.ok /\ w.size # PACKET_SIZE

\* C39: when the write endpoint answers a submission made in ResponsePending
\* or in Sending with an error other than WouldBlock or with a size other than
\* 64, the call panics: the packet is not counted as sent, and the program
\* takes no further step.
C39_UnexpectedWriteResultPanics ==
  [][/\ ~panicked
     /\ (state.tag \in {"ResponsePending", "Sending"} /\ wr'.attempted
         /\ UnexpectedResult(wr'.result))
          => (panicked' /\ tx' = tx)]_vars

C39_Witness ==
  /\ panicked /\ wr.attempted /\ wr.result = UsbOk(PACKET_SIZE - 1)
  /\ state.tag = "Sending" /\ state.message_state.next_sequence = 1
  /\ wr.packet[4] = 1

\* C40: for every pair (r, s) of 32-byte scalars, the SEQUENCE of INTEGER r
\* and INTEGER s written into a new writer over a 72-byte buffer is at most 72
\* bytes long: the writer returns Ok, no index leaves the buffer, and what is
\* written fits the Bytes<U72> of the signature.
C40_SignatureFitsIn72Bytes ==
  [][(derop'.op = "sequence" /\ Len(der.buffer) = 72 /\ der.offset = 0)
       => /\ derop'.ok /\ ~derop'.panicked
          /\ Len(DerDeref(der')) <= 72
          /\ Len(DerDeref(der')) >= 8]_vars

C40_Witness ==
  /\ derop.op = "sequence" /\ derop.ok
  /\ derop.arg = <<Scalar(0, 255), Scalar(0, 128)>>
  /\ Len(der.buffer) = 72 /\ der.offset = 72
  /\ der.buffer[2] = 70 /\ der.buffer[5] = 0 /\ der.buffer[6] = 255

\* the COSE key the host reads after the credential id in an authData
CredentialPublicKeyIn(auth_data) ==
  SubSeq(auth_data, 56 + Len(CredentialIdIn(auth_data)), Len(auth_data))

\* C32: a make_credential that succeeds has made an Ed25519 key pair and
\* recorded alg -8 in the credential id whenever pubKeyCredParams holds an
\* entry with alg -8, wherever it stands and whether or not -7 is there too;
\* it has made a P-256 key pair and recorded alg -7 only when -7 is in the
\* list and -8 is not.
C32_EddsaPreferred ==
  (authcall.op = "make_credential" /\ authcall.result.ok)
    => LET p == authcall.params
           algs == {p.pub_key_cred_params[i].alg :
                      i \in 1..Len(p.pub_key_cred_params)}
           auth_data == authcall.result.value.auth_data
           inner == Deserialize(CredentialIdIn(auth_data)).value
           key == CredentialPublicKeyIn(auth_data)
       IN /\ -8 \in algs
               => /\ inner.alg = -8
                  /\ key = SerializePublicKey(Term("Ed25519", <<inner.seed>>))
          /\ -8 \notin algs
               => /\ -7 \in algs
                  /\ inner.alg = -7
                  /\ key = SerializePublicKey(Term("P256", <<inner.seed>>))

C32_Witness ==
  /\ authcall.op = "make_credential" /\ authcall.result.ok
  /\ authcall.params.pub_key_cred_params = <<[alg |-> -8], [alg |-> -7]>>
  /\ Deserialize(CredentialIdIn(authcall.result.value.auth_data)).value.alg = -8
  /\ CredentialPublicKeyIn(authcall.result.value.auth_data)[1] = 164

\* the authData of a call that has returned Ok
ReturnedAuthData ==
  IF authcall.op = "make_credential" THEN authcall.result.value.auth_data
  ELSE authcall.result.value[1].auth_data

\* C33: the authData make_credential and get_assertions return has the
\* 32 bytes of the SHA-256 of the rp id first, then at offset 32 the flags
\* byte 0x41 (user present, attested credential data), then the 4 bytes of
\* signCount, big-endian.
C33_FlagsByteIs0x41 ==
  (authcall.op \in {"make_credential", "get_assertions"} /\ authcall.result.ok)
    => /\ SubSeq(ReturnedAuthData, 1, 32)
            = BytesOf(Term("prehash", <<"example.org">>), 32)
       /\ ReturnedAuthData[33] = 65
       /\ SubSeq(ReturnedAuthData, 34, 37) = <<0, 0, 0, 123>>

\* C31: the credential id a successful make_credential returns (user id of
\* up to 64 bytes, alg -7 or -8) fits the id of a credential descriptor,
\* decodes to the record {user_id, alg, seed} it was encoded from, and
\* get_assertions with it as the allowList entry answers with the public key
\* of the key pair make_credential generated.
C31_CredentialIdRoundTrip ==
  (authcall.op = "make_credential" /\ authcall.result.ok)
    => LET p == authcall.params
           auth_data == authcall.result.value.auth_data
           id == CredentialIdIn(auth_data)
           inner == Deserialize(id)
           descriptor == PublicKeyCredentialDescriptor(id)
           assertion ==
             GetAssertions(InsecureRamAuthenticator,
                           [rp_id |-> p.rp.id,
                            client_data_hash |-> p.client_data_hash,
                            allow_list |-> <<descriptor.value>>])
       IN /\ descriptor.some
          /\ inner.ok
          /\ inner.value.user_id = p.user.id
          /\ inner.value.alg \in {-7, -8}
          /\ Len(inner.value.seed) = 32
          /\ FromSerialized(inner.value) = id
          /\ assertion.ok
          /\ assertion.value[1].user = Some([id |-> p.user.id])
          /\ CredentialPublicKeyIn(assertion.value[1].auth_data)
               = CredentialPublicKeyIn(auth_data)

====
